---- MODULE Spec2Model ----
(***************************************************************************)
(* A model of the pack CLI core (github.com/buildpack/pack):               *)
(*   - the daemon-backed Image Handle (image/local.go),                    *)
(*   - the build pipeline BuildConfig.Run and its phases (build.go),       *)
(*   - flag resolution BuildFactory.BuildConfigFromFlags (build.go),       *)
(*   - run-image selection config.ImageByRegistry (config/config.go),      *)
(*   - builder assembly BuilderFactory.Create (create_builder.go),         *)
(*   - pack uid/gid discovery BuildConfig.packUidGid (build.go),           *)
(*   - the pack process: main and config.New (cmd/pack/main.go,            *)
(*     config/config.go).                                                  *)
(* Each subsystem has its own specification; the variables of the other    *)
(* subsystems stay at their idle values.                                   *)
(***************************************************************************)
EXTENDS Integers, Sequences, FiniteSets, TLC

VARIABLES
    daemon,     \* image handle: images stored in the docker daemon, by repository
    handle,     \* image handle: the fields of the *local value
    ret,        \* image handle: the last call, its result and (for Rebase) its argument
    rebased,    \* image handle: history of the last successful Rebase
    uenv,       \* packUidGid: Config.Env of the builder image
    ures,       \* packUidGid: the result of the last call
    bcfg,       \* build: the fields of the BuildConfig that Run reads
    pc,         \* build: the position of Run: phase, step, containers in hand
    perr,       \* build: the error the current phase is returning
    ctrs,       \* build: every container created so far, by id
    log,        \* build: history of the docker calls and of the phases' calls and returns
    runRet,     \* build: what Run returned
    flags,      \* flags: the BuildFlags, the pack config and the images' labels
    fres,       \* flags: what BuildConfigFromFlags returned
    bconf,      \* builder: the BuilderConfig handed to Create
    bst,        \* builder: the position of Create, its image and its result
    cfile,      \* cli: the file config.toml of the pack home
    cnew,       \* cli: what config.New returned, and history of its first return and of the file
    mst,        \* cli: the position of main and the exit code of the process
    sv,         \* streamed Save: the positions of Save and of its load task, the pipe, the results
    tv          \* tarEnvFile: the env map, the wall clock and the streams of the calls so far

imgVars == <<daemon, handle, ret, rebased>>
uidVars == <<uenv, ures>>
runVars == <<bcfg, pc, perr, ctrs, log, runRet>>
flagVars == <<flags, fres>>
bldVars == <<bconf, bst>>
cliVars == <<cfile, cnew, mst>>
saveVars == <<sv>>
tarVars == <<tv>>

vars == <<daemon, handle, ret, rebased, uenv, ures, bcfg, pc, perr, ctrs, log, runRet, flags, fres, bconf, bst, cfile, cnew, mst, sv, tv>>

(***************************************************************************)
(* Bounds                                                                  *)
(***************************************************************************)
MaxLayers == 3       \* most layers of the target image and of its handle
MaxBaseLayers == 2   \* most layers of the new base image
MaxEnv == 3          \* most entries of the builder image's Config.Env
MaxBuildpacks == 2   \* most --buildpack flags of a build
MaxRunImages == 2    \* most run-images of a stack of the pack config
MaxBps == 2           \* most buildpacks of a builder config
MaxPath == 2          \* most elements of the --path of a build
MaxStacks == 2        \* most stacks of a config.toml
MaxSavePaths == 2     \* most layers of a handle that is saved as a stream
MaxEnvFile == 2       \* most variables of the env file of a build
MaxClock == 2         \* latest reading of the wall clock

(***************************************************************************)
(* Generic helpers                                                         *)
(***************************************************************************)
SeqsUpTo(S, n) == UNION {[1..k -> S] : k \in 0..n}

Range(s) == {s[i] : i \in 1..Len(s)}

\* index of the first occurrence of x in s, 0 when absent
IndexOf(s, x) ==
    IF x \in Range(s) THEN CHOOSE i \in 1..Len(s) : s[i] = x /\ \A j \in 1..(i-1) : s[j] # x
    ELSE 0

\* s[from..Len(s)], Go's s[from-1:]
Tail_(s, from) == SubSeq(s, from, Len(s))

(***************************************************************************)
(* Image handle: values                                                    *)
(***************************************************************************)
NoErr == "nil"
ErrPull == "failed to pull image"
ErrInspect == "analyze read previous image config"
ErrRebaseParse == "rebase: parse reference"
ErrRebaseRead == "rebase: read image"
ErrRebaseNotFound == "rebase: old base top layer not found"
ErrRebaseWrite == "rebase: write image"
ErrAddLayerOpen == "AddLayer: open layer"
ErrSetLabel == "failed to set label, image does not exist"
ErrSaveTag == "save: parse tag"
ErrSaveOpen == "save: open layer"
ErrSaveLoad == "save: image load"
Panic == "panic: assignment to entry in nil map"
PanicIndex == "panic: index out of range"
ErrLabel == "failed to get label, image does not exist"

\* diff-ids of layers that images in the daemon are made of
TargetDiffIds == {"sha256:b1", "sha256:b2"}
NewBaseDiffIds == {"sha256:b1", "sha256:n1"}

\* tar files on disk: path -> content; a missing file has no content
LayerFiles == {"/tmp/a.tar"}
MissingFile == "/tmp/missing.tar"
Paths == LayerFiles \cup {MissingFile}
FileContent(p) == IF p = "/tmp/a.tar" THEN "c1" ELSE "c2"

\* label keys and values
LabelKeys == {"mykey", "otherkey"}
LabelVals == {"v1"}
Absent == "<absent>"
NoLabels == [k \in LabelKeys |-> Absent]

\* repository references: a tag, and a digest reference to the same image
TagRef == "some/app"
DigestRef == "some/app@sha256:dd"
NewBaseRef == "some/run"
RepoRefs == {TagRef}
TmpNames == {"pack-rebase-tmp-aaaaaaaa"}
ImageKeys == {TagRef, NewBaseRef} \cup TmpNames

\* the daemon's image a reference resolves to
Resolve(name) == IF name = DigestRef THEN TagRef ELSE name

\* an image of the daemon (types.ImageInspect as far as the handle reads it):
\* exists = FALSE is the zero value ImageInspectWithRaw returns with "not found"
\* (Config == nil); nilLabels is Config.Labels == nil
NoImage == [exists |-> FALSE, layers |-> <<>>, nilLabels |-> TRUE, labels |-> NoLabels]
MkImage(layers, nilLabels, labels) ==
    [exists |-> TRUE, layers |-> layers, nilLabels |-> nilLabels, labels |-> labels]

NoHandle ==
    [open |-> FALSE, RepoName |-> TagRef, Inspect |-> NoImage, layerPaths |-> <<>>,
     currentTempImage |-> ""]

NoRebase == [done |-> FALSE, oldTop |-> "", target |-> <<>>, newBase |-> <<>>]

MkRet(op, err) == [op |-> op, err |-> err, arg |-> "", val |-> ""]


(***************************************************************************)
(* Image handle: pure parts                                                *)
(***************************************************************************)
\* crypto/sha256 of a layer file: equal contents give equal diff-ids
Sha256(content) == IF content = "c1" THEN "sha256:c1" ELSE "sha256:c2"

\* name.NewTag(ref, WeakValidation): a digest reference is no tag
ValidTag(name) == name # DigestRef

\* subImage.Layers: the layers of img up to and including topSHA
SubImageFound(layers, topSHA) == topSHA \in Range(layers)
SubImageLayers(layers, topSHA) == SubSeq(layers, 1, IndexOf(layers, topSHA))

\* mutate.Rebase(orig, oldBase, newBase): the new base's layers, then the
\* layers of orig above the old base
MutateRebase(orig, oldBaseLayers, newBaseLayers) ==
    [orig EXCEPT !.layers = newBaseLayers \o Tail_(orig.layers, Len(oldBaseLayers) + 1)]

\* local.Label
\* a Label that does not look whether the image exists
LabelOfAnyImage(h, key) ==
    IF h.Inspect.nilLabels \/ h.Inspect.labels[key] = Absent THEN [val |-> "", err |-> NoErr]
    ELSE [val |-> h.Inspect.labels[key], err |-> NoErr]

Label(h, key) ==
    IF ~h.Inspect.exists THEN [val |-> "", err |-> ErrLabel]
    ELSE IF h.Inspect.nilLabels \/ h.Inspect.labels[key] = Absent THEN [val |-> "", err |-> NoErr]
    ELSE [val |-> h.Inspect.labels[key], err |-> NoErr]

\* local.TopLayer: all[len(all)-1] panics on an empty layer list
TopLayer(h) ==
    IF h.Inspect.layers = <<>> THEN [val |-> "", err |-> PanicIndex]
    ELSE [val |-> h.Inspect.layers[Len(h.Inspect.layers)], err |-> NoErr]

Running == ret.err \notin {Panic, PanicIndex}

(***************************************************************************)
(* Image handle: operations                                                *)
(***************************************************************************)
\* Factory.NewLocal(repoName, pull)
NewLocal ==
    /\ Running
    /\ \E repoName \in RepoRefs, pull \in BOOLEAN, pullOk \in BOOLEAN,
          inspectOk \in BOOLEAN :
        IF pull /\ ~pullOk THEN
            /\ ret' = MkRet("NewLocal", ErrPull)
            /\ UNCHANGED <<daemon, handle, rebased>>
        ELSE IF ~inspectOk THEN
            /\ ret' = MkRet("NewLocal", ErrInspect)
            /\ UNCHANGED <<daemon, handle, rebased>>
        ELSE
            LET inspect == daemon[Resolve(repoName)] IN
            /\ handle' = [open |-> TRUE, RepoName |-> repoName, Inspect |-> inspect,
                          layerPaths |-> [i \in 1..Len(inspect.layers) |-> ""],
                          currentTempImage |-> ""]
            /\ ret' = MkRet("NewLocal", NoErr)
            /\ rebased' = NoRebase
            /\ UNCHANGED daemon

\* a SetLabel that replaces the label map by one that holds only key
SetLabelStoreAlone(h, key, val) ==
    [h EXCEPT !.Inspect.labels = [k \in LabelKeys |-> IF k = key THEN val ELSE Absent]]

\* l.Inspect.Config.Labels[key] = val
SetLabelStore(h, key, val) == [h EXCEPT !.Inspect.labels[key] = val]

\* local.Label(key)
LabelCall ==
    /\ Running /\ handle.open
    /\ \E key \in LabelKeys :
        ret' = [MkRet("Label", Label(handle, key).err) EXCEPT !.arg = key, !.val = Label(handle, key).val]
    /\ UNCHANGED <<daemon, handle, rebased>>

\* local.TopLayer()
TopLayerCall ==
    /\ Running /\ handle.open
    /\ ret' = [MkRet("TopLayer", TopLayer(handle).err) EXCEPT !.val = TopLayer(handle).val]
    /\ UNCHANGED <<daemon, handle, rebased>>

\* local.SetLabel(key, val)
SetLabel ==
    /\ Running /\ handle.open
    /\ \E key \in LabelKeys, val \in LabelVals :
        /\ IF ~handle.Inspect.exists THEN
               /\ ret' = [MkRet("SetLabel", ErrSetLabel) EXCEPT !.arg = key, !.val = val]
               /\ UNCHANGED handle
           ELSE IF handle.Inspect.nilLabels THEN
               /\ ret' = MkRet("SetLabel", Panic)
               /\ UNCHANGED handle
           ELSE
               /\ handle' = SetLabelStore(handle, key, val)
               /\ ret' = [MkRet("SetLabel", NoErr) EXCEPT !.arg = key, !.val = val]
        /\ rebased' = NoRebase
        /\ UNCHANGED daemon

\* an AddLayer that forgets the path of the layer it appends
AddLayerAppendNoPath(h, path) ==
    [h EXCEPT !.Inspect.layers = Append(@, Sha256(FileContent(path)))]

\* the body of local.AddLayer after the file was opened and hashed
AddLayerAppend(h, path) ==
    [h EXCEPT !.Inspect.layers = Append(@, Sha256(FileContent(path))),
              !.layerPaths = Append(@, path)]

\* local.AddLayer(path)
AddLayer ==
    /\ Running /\ handle.open
    /\ Len(handle.Inspect.layers) < MaxLayers
    /\ \E path \in Paths :
        /\ IF path \notin LayerFiles THEN
               /\ ret' = MkRet("AddLayer", ErrAddLayerOpen)
               /\ UNCHANGED handle
           ELSE
               /\ handle' = AddLayerAppend(handle, path)
               /\ ret' = [MkRet("AddLayer", NoErr) EXCEPT !.arg = path]
        /\ rebased' = NoRebase
        /\ UNCHANGED daemon

\* a Rebase that keeps the old base under the new one (oldBase without layers)
RebasedImageKeepsOldBase(image, baseTopLayer, newBaseImage) ==
    MutateRebase(image, <<>>, newBaseImage.layers)

\* oldBase := &subImage{img: image, topSHA: baseTopLayer};
\* mutate.Rebase(image, oldBase, newBaseImage, ...)
RebasedImage(image, baseTopLayer, newBaseImage) ==
    MutateRebase(image, SubImageLayers(image.layers, baseTopLayer), newBaseImage.layers)

\* a Rebase that names its temporary image before it has looked for the old base
RebaseOutcomeTmpFirst(h, d, baseTopLayer, tmp, writeOk) ==
    LET image == d[Resolve(h.RepoName)]
        newBaseImage == d[NewBaseRef]
        h2 == [h EXCEPT !.currentTempImage = tmp]
    IN
    IF ~ValidTag(h.RepoName) THEN [err |-> ErrRebaseParse, handle |-> h, daemon |-> d]
    ELSE IF ~image.exists \/ ~newBaseImage.exists THEN
        [err |-> ErrRebaseRead, handle |-> h, daemon |-> d]
    ELSE IF ~SubImageFound(image.layers, baseTopLayer) THEN
        [err |-> ErrRebaseNotFound, handle |-> h2, daemon |-> d]
    ELSE IF ~writeOk THEN [err |-> ErrRebaseWrite, handle |-> h2, daemon |-> d]
    ELSE [err |-> NoErr, handle |-> h2,
          daemon |-> [d EXCEPT ![tmp] = RebasedImage(image, baseTopLayer, newBaseImage)]]

\* local.Rebase(baseTopLayer, newBase) as a function of the handle h and the
\* daemon's images d: the error returned, the handle and the images afterwards.
\* tmp is the name randString produced, writeOk whether the daemon accepted the
\* write of the temporary image.
RebaseOutcome(h, d, baseTopLayer, tmp, writeOk) ==
    LET image == d[Resolve(h.RepoName)]
        newBaseImage == d[NewBaseRef]
    IN
    IF ~ValidTag(h.RepoName) THEN [err |-> ErrRebaseParse, handle |-> h, daemon |-> d]
    ELSE IF ~image.exists \/ ~newBaseImage.exists THEN
        [err |-> ErrRebaseRead, handle |-> h, daemon |-> d]
    ELSE IF ~SubImageFound(image.layers, baseTopLayer) THEN
        [err |-> ErrRebaseNotFound, handle |-> h, daemon |-> d]
    ELSE IF ~writeOk THEN
        [err |-> ErrRebaseWrite, handle |-> [h EXCEPT !.currentTempImage = tmp], daemon |-> d]
    ELSE
        [err |-> NoErr, handle |-> [h EXCEPT !.currentTempImage = tmp],
         daemon |-> [d EXCEPT ![tmp] = RebasedImage(image, baseTopLayer, newBaseImage)]]

Rebase ==
    /\ Running /\ handle.open
    /\ \E baseTopLayer \in TargetDiffIds \cup NewBaseDiffIds, tmp \in TmpNames,
          writeOk \in BOOLEAN :
        LET out == RebaseOutcome(handle, daemon, baseTopLayer, tmp, writeOk) IN
        /\ handle' = out.handle
        /\ daemon' = out.daemon
        /\ ret' = [MkRet("Rebase", out.err) EXCEPT !.arg = baseTopLayer]
        /\ rebased' = IF out.err = NoErr
                      THEN [done |-> TRUE, oldTop |-> baseTopLayer,
                            target |-> daemon[Resolve(handle.RepoName)].layers,
                            newBase |-> daemon[NewBaseRef].layers]
                      ELSE rebased

\* a Save that streams the layers with an empty image config
SavedImageNoLabels(h) ==
    [exists |-> TRUE, layers |-> h.Inspect.layers, nilLabels |-> TRUE, labels |-> NoLabels]

\* the image config and manifest local.Save streams to ImageLoad
SavedImage(h) ==
    [exists |-> TRUE, layers |-> h.Inspect.layers,
     nilLabels |-> h.Inspect.nilLabels, labels |-> h.Inspect.labels]

\* local.Save()
Save ==
    /\ Running /\ handle.open
    /\ \E openOk \in BOOLEAN, loadOk \in BOOLEAN :
        /\ IF ~ValidTag(handle.RepoName) THEN
               /\ ret' = MkRet("Save", ErrSaveTag)
               /\ UNCHANGED daemon
           ELSE IF ~openOk /\ \E i \in 1..Len(handle.layerPaths) : handle.layerPaths[i] # "" THEN
               /\ ret' = MkRet("Save", ErrSaveOpen)
               /\ UNCHANGED daemon
           ELSE IF ~loadOk THEN
               /\ ret' = MkRet("Save", ErrSaveLoad)
               /\ UNCHANGED daemon
           ELSE
               /\ daemon' = [daemon EXCEPT ![Resolve(handle.RepoName)] = SavedImage(handle)]
               /\ ret' = MkRet("Save", NoErr)
        /\ UNCHANGED <<handle, rebased>>

(***************************************************************************)
(* The state of a subsystem that a specification leaves alone              *)
(***************************************************************************)
NoResult == [done |-> FALSE, uid |-> 0, gid |-> 0, err |-> NoErr]
NoConfig == [ClearCache |-> FALSE, Publish |-> FALSE, EnvFile |-> FALSE, Buildpacks |-> <<>>, GOOS |-> "linux",
             CacheVolume |-> "new"]
NoPc == [phase |-> "idle", idx |-> 0, mode |-> "call", bp |-> 0, bps |-> <<>>, ctr |-> 0, chownCtr |-> 0, chown |-> "idle"]

ImageIdle ==
    /\ daemon = [k \in ImageKeys |-> NoImage]
    /\ handle = NoHandle
    /\ ret = MkRet("init", NoErr)
    /\ rebased = NoRebase

UidIdle == uenv = <<>> /\ ures = NoResult

RunIdle ==
    /\ bcfg = NoConfig
    /\ pc = NoPc
    /\ perr = NoErr
    /\ ctrs = <<>>
    /\ log = <<>>
    /\ runRet = [done |-> FALSE, err |-> NoErr]

\* a path is the sequence of its elements, and says whether it starts at "/"
EmptyPath == [abs |-> FALSE, parts |-> <<>>]
NoFlags == [Builder |-> <<>>, RunImage |-> <<>>, RepoName |-> <<>>, EnvFile |-> "", Publish |-> FALSE,
            NoPull |-> FALSE, builderLabel |-> "", runLabel |-> "", RunImages |-> <<>>,
            AppDir |-> EmptyPath, wd |-> <<>>, getwdOk |-> TRUE]
FlagErr(msg) == [msg |-> msg, runId |-> "", runImage |-> <<>>, builderId |-> "", builder |-> <<>>]
FlagNil == FlagErr(NoErr)
NoReturn == [done |-> FALSE, ok |-> FALSE, err |-> FlagNil, config |-> <<>>, trace |-> <<>>]
FlagsIdle == flags = NoFlags /\ fres = NoReturn

BaseLayer == [kind |-> "base", id |-> <<>>, version |-> "", dir |-> <<>>]
NoCreate == [pc |-> "idle", i |-> 0, image |-> <<>>, tarFile |-> BaseLayer, written |-> <<>>, err |-> NoErr,
             cause |-> NoErr]
BuilderIdle == bconf = <<>> /\ bst = NoCreate

\* a Config value, the file that does not exist, and a process not started
EmptyConfig == [Stacks |-> <<>>, DefaultStackID |-> ""]
NoFile == [state |-> "absent", config |-> EmptyConfig, extra |-> FALSE]
NoNew == [done |-> FALSE, err |-> NoErr, config |-> EmptyConfig, first |-> <<>>, orig |-> NoFile]
NoMain == [pc |-> "start", cmd |-> "", cmdOk |-> FALSE, exit |-> -1]
CliIdle == cfile = NoFile /\ cnew = NoNew /\ mst = NoMain

\* no Save under way
NoSave == [variant |-> "", paths |-> <<>>, pc |-> "idle", i |-> 0, pipe |-> "none", lpc |-> "none",
           wg |-> 0, err |-> NoErr, lerr |-> NoErr]
SaveIdle == sv = NoSave

\* no env file, no call of tarEnvFile
NoTar == [env |-> <<>>, clock |-> 0, out |-> <<>>]
TarIdle == tv = NoTar

InitImage ==
    /\ \E tl \in SeqsUpTo(TargetDiffIds, MaxLayers), nl \in SeqsUpTo(NewBaseDiffIds, MaxBaseLayers),
          te \in BOOLEAN, ne \in BOOLEAN, tn \in BOOLEAN, lab \in {[k \in LabelKeys |-> IF k = "mykey" THEN "v1" ELSE Absent]} :
        /\ (~te => tl = <<>> /\ tn)
        /\ (~ne => nl = <<>>)
        /\ daemon = [k \in ImageKeys |->
                        IF k = TagRef THEN (IF te THEN MkImage(tl, tn, IF tn THEN NoLabels ELSE lab) ELSE NoImage)
                        ELSE IF k = NewBaseRef THEN (IF ne THEN MkImage(nl, TRUE, NoLabels) ELSE NoImage)
                        ELSE NoImage]
    /\ handle = NoHandle
    /\ ret = MkRet("init", NoErr)
    /\ rebased = NoRebase
    /\ UidIdle
    /\ RunIdle
    /\ FlagsIdle
    /\ BuilderIdle
    /\ CliIdle
    /\ SaveIdle
    /\ TarIdle

NextImage ==
    \/ NewLocal /\ UNCHANGED <<uidVars, runVars, flagVars, bldVars, cliVars, saveVars, tarVars>>
    \/ SetLabel /\ UNCHANGED <<uidVars, runVars, flagVars, bldVars, cliVars, saveVars, tarVars>>
    \/ AddLayer /\ UNCHANGED <<uidVars, runVars, flagVars, bldVars, cliVars, saveVars, tarVars>>
    \/ Rebase /\ UNCHANGED <<uidVars, runVars, flagVars, bldVars, cliVars, saveVars, tarVars>>
    \/ Save /\ UNCHANGED <<uidVars, runVars, flagVars, bldVars, cliVars, saveVars, tarVars>>
    \/ LabelCall /\ UNCHANGED <<uidVars, runVars, flagVars, bldVars, cliVars, saveVars, tarVars>>
    \/ TopLayerCall /\ UNCHANGED <<uidVars, runVars, flagVars, bldVars, cliVars, saveVars, tarVars>>

SpecImage == InitImage /\ [][NextImage]_vars

(***************************************************************************)
(* packUidGid                                                              *)
(*                                                                         *)
(* A string is a sequence of tokens: the name of an environment variable   *)
(* is one token, "=" is one token, every other character is one token.     *)
(***************************************************************************)
EnvNames == {"PACK_USER_ID", "PACK_GROUP_ID", "PACK_USER_GID", "PATH"}
EnvValues == {<<>>, <<"1">>, <<"2", "1">>, <<"x">>}
EnvEntries ==
    {<<n>> : n \in EnvNames} \cup {<<n, "=">> \o v : n \in EnvNames, v \in EnvValues}

ErrReadEnv == "reading builder env variables"
ErrNotFound == "not found pack uid & gid"
ErrParseUid == "parsing pack uid"
ErrParseGid == "parsing pack gid"

Digits == {"0", "1", "2", "3", "4", "5", "6", "7", "8", "9"}
DigitVal(c) ==
    CASE c = "0" -> 0 [] c = "1" -> 1 [] c = "2" -> 2 [] c = "3" -> 3 [] c = "4" -> 4
      [] c = "5" -> 5 [] c = "6" -> 6 [] c = "7" -> 7 [] c = "8" -> 8 [] OTHER -> 9

\* strings.SplitN(kv, "=", 2)
SplitN2(kv) ==
    IF "=" \notin Range(kv) THEN <<kv>>
    ELSE LET i == IndexOf(kv, "=") IN <<SubSeq(kv, 1, i - 1), SubSeq(kv, i + 1, Len(kv))>>

\* strconv.Atoi: an optional sign, then at least one digit, digits only
AtoiOk(str) ==
    LET body == IF Len(str) >= 1 /\ str[1] \in {"+", "-"} THEN Tail(str) ELSE str IN
    Len(body) >= 1 /\ \A i \in 1..Len(body) : body[i] \in Digits

RECURSIVE DecimalValue(_)
DecimalValue(body) ==
    IF body = <<>> THEN 0
    ELSE 10 * DecimalValue(SubSeq(body, 1, Len(body) - 1)) + DigitVal(body[Len(body)])

Atoi(str) ==
    IF str[1] = "-" THEN 0 - DecimalValue(Tail(str))
    ELSE IF str[1] = "+" THEN DecimalValue(Tail(str))
    ELSE DecimalValue(str)

\* the loop of packUidGid over i.Config.Env: the value of the last entry
\* "name=value", "" when there is none
RECURSIVE EnvLookup(_, _)
EnvLookup(env, name) ==
    IF env = <<>> THEN <<>>
    ELSE LET kv2 == SplitN2(env[Len(env)]) IN
         IF Len(kv2) = 2 /\ kv2[1] = <<name>> THEN kv2[2]
         ELSE EnvLookup(SubSeq(env, 1, Len(env) - 1), name)

\* BuildConfig.packUidGid after ImageInspectWithRaw returned env
PackUidGid(env) ==
    LET sUID == EnvLookup(env, "PACK_USER_ID")
        sGID == EnvLookup(env, "PACK_GROUP_ID")
    IN
    IF sUID = <<>> \/ sGID = <<>> THEN [uid |-> 0, gid |-> 0, err |-> ErrNotFound]
    ELSE IF ~AtoiOk(sUID) THEN [uid |-> 0, gid |-> 0, err |-> ErrParseUid]
    ELSE IF ~AtoiOk(sGID) THEN [uid |-> 0, gid |-> 0, err |-> ErrParseGid]
    ELSE [uid |-> Atoi(sUID), gid |-> Atoi(sGID), err |-> NoErr]

\* a call of packUidGid(builder)
CallPackUidGid ==
    /\ ~ures.done
    /\ \E inspectOk \in BOOLEAN :
        ures' = IF inspectOk
                THEN [done |-> TRUE] @@ PackUidGid(uenv)
                ELSE [done |-> TRUE, uid |-> 0, gid |-> 0, err |-> ErrReadEnv]
    /\ UNCHANGED uenv

InitUidGid ==
    /\ uenv \in SeqsUpTo(EnvEntries, MaxEnv)
    /\ ures = NoResult
    /\ ImageIdle
    /\ RunIdle
    /\ FlagsIdle
    /\ BuilderIdle
    /\ CliIdle
    /\ SaveIdle
    /\ TarIdle

NextUidGid == CallPackUidGid /\ UNCHANGED <<imgVars, runVars, flagVars, bldVars, cliVars, saveVars, tarVars>>

SpecUidGid == InitUidGid /\ [][NextUidGid]_vars

(***************************************************************************)
(* BuildConfig.Run and its four phases                                     *)
(*                                                                         *)
(* Every docker call is one step.  A phase is the sequence of the calls    *)
(* its function makes; a call that fails ends the phase with the wrapped   *)
(* error, after the deferred ContainerRemove when the phase's container    *)
(* exists.                                                                 *)
(***************************************************************************)
launchDir == "/workspace"
Phases == <<"Detect", "Analyze", "Build", "Export">>
BuildpackKinds == {"dir", "ref"}

\* a --buildpack flag: the string given, as a sequence of tokens; whether
\* os.Stat finds a buildpack.toml under it (kind "dir"); and the id and the
\* version that file declares
DirBuildpack == [kind |-> "dir", ref |-> <<"bp">>, ID |-> <<"d">>, Version |-> <<"1">>]
RefBuildpack(ref) == [kind |-> "ref", ref |-> ref, ID |-> <<>>, Version |-> <<>>]
BuildpackFlags == {DirBuildpack, RefBuildpack(<<"r", "@", "2">>)}
BuildpackRefs == {<<"r">>, <<"r", "@", "2">>, <<"r", "@">>, <<"r", "@", "2", "@", "3">>}

\* strings.Split(s, sep) for a separator of one token
RECURSIVE Split(_, _)
Split(s, sep) ==
    IF s = <<>> THEN << <<>> >>
    ELSE LET rest == Split(Tail(s), sep) IN
         IF Head(s) = sep THEN << <<>> >> \o rest
         ELSE << <<Head(s)>> \o rest[1] >> \o Tail(rest)

\* parseBuildpack(ref)
parseBuildpack(ref) ==
    LET parts == Split(ref, "@") IN
    IF Len(parts) = 2 THEN [id |-> parts[1], version |-> parts[2]]
    ELSE [id |-> parts[1], version |-> <<"latest">>]

\* the *lifecycle.Buildpack that copyBuildpacksToContainer appends for a flag
LifecycleBuildpack(flag) ==
    IF flag.kind = "dir" THEN [ID |-> flag.ID, Version |-> flag.Version, Optional |-> FALSE]
    ELSE [ID |-> parseBuildpack(flag.ref).id, Version |-> parseBuildpack(flag.ref).version, Optional |-> FALSE]

\* an order of one group for each buildpack
OrderGroupsOneEach(buildpacks) ==
    [i \in 1..Len(buildpacks) |-> [Buildpacks |-> <<buildpacks[i]>>]]

\* the lifecycle.BuildpackOrder Detect encodes as order.toml
OrderGroups(buildpacks) == <<[Buildpacks |-> buildpacks]>>
BuilderEnvs ==
    { <<<<"PACK_USER_ID", "=", "1">>, <<"PACK_GROUP_ID", "=", "2", "1">>>>,
      <<<<"PACK_USER_ID", "=", "1">>, <<"PACK_USER_GID", "=", "2", "1">>>>,
      <<<<"PACK_USER_ID", "=", "x">>, <<"PACK_GROUP_ID", "=", "1">>>> }

ErrAuth == "resolving registry credentials"

\* the cache volume of the build: new, or left by an earlier build of the
\* same RepoName whose exporter ran as root (no --publish)
CacheVolumes == {"new", "used"}

\* an entry of the log; tars and recv count the calls of CreateTarReader and
\* the receives from the error channels they returned; flag and bp are the
\* --buildpack flag of an iteration of copyBuildpacksToContainer and the
\* buildpack it appended; groups is the order written as order.toml
Event(ev, phase, ok, what) ==
    [ev |-> ev, phase |-> phase, ok |-> ok, what |-> what, uid |-> 0, gid |-> 0, tars |-> 0, recv |-> 0,
     flag |-> <<>>, bp |-> <<>>, groups |-> <<>>]

\* a copy that receives from the error channel whatever CopyToContainer returned
TarCopyDrained(out) == [tars |-> 1, recv |-> 1]

\* CreateTarReader, CopyToContainer and the receive from the error channel:
\* a failed CopyToContainer returns before the receive
TarCopy(out) == [tars |-> 1, recv |-> IF out = "copy" THEN 0 ELSE 1]

Optional(cond, step) == IF cond THEN <<step>> ELSE <<>>

\* the calls of Export, in the order of its statements, with the step in
\* the wrong place: the exporter runs before the launch dir is chowned
ExportStepsRunFirst(b) ==
    Optional(b.Publish, "authHeader") \o <<"ContainerCreate", "RunContainer", "packUidGid", "chownDir">>

\* the Detect that clears the cache whatever the flag says
DetectStepsAlwaysClear(b) ==
    <<"VolumeRemove", "ContainerCreate">>
        \o Optional(Len(b.Buildpacks) > 0, "copyBuildpacksToContainer")
        \o <<"CopyApp", "packUidGid", "chownDir">>
        \o Optional(Len(b.Buildpacks) > 0, "CopyOrder")
        \o Optional(b.EnvFile, "copyEnvsToContainer")
        \o <<"RunContainer">>

\* the Detect that clears the cache after it created its container
DetectStepsClearLate(b) ==
    <<"ContainerCreate">> \o Optional(b.ClearCache, "VolumeRemove")
        \o Optional(Len(b.Buildpacks) > 0, "copyBuildpacksToContainer")
        \o <<"CopyApp", "packUidGid", "chownDir">>
        \o Optional(Len(b.Buildpacks) > 0, "CopyOrder")
        \o Optional(b.EnvFile, "copyEnvsToContainer")
        \o <<"RunContainer">>

\* the Build that runs the builder before the env files are copied
BuildStepsRunEarly(b) ==
    <<"ContainerCreate">>
        \o Optional(Len(b.Buildpacks) > 0, "copyBuildpacksToContainer")
        \o <<"RunContainer">>
        \o Optional(b.EnvFile, "copyEnvsToContainer")

DetectSteps(b) ==
    Optional(b.ClearCache, "VolumeRemove") \o <<"ContainerCreate">>
        \o Optional(Len(b.Buildpacks) > 0, "copyBuildpacksToContainer")
        \o <<"CopyApp", "packUidGid", "chownDir">>
        \o Optional(Len(b.Buildpacks) > 0, "CopyOrder")
        \o Optional(b.EnvFile, "copyEnvsToContainer")
        \o <<"RunContainer">>

AnalyzeSteps(b) ==
    Optional(b.Publish, "authHeader") \o <<"ContainerCreate", "RunContainer", "packUidGid", "chownDir">>

BuildSteps(b) ==
    <<"ContainerCreate">>
        \o Optional(Len(b.Buildpacks) > 0, "copyBuildpacksToContainer")
        \o Optional(b.EnvFile, "copyEnvsToContainer")
        \o <<"RunContainer">>

ExportSteps(b) ==
    Optional(b.Publish, "authHeader") \o <<"ContainerCreate", "packUidGid", "chownDir", "RunContainer">>

Steps(phase, b) ==
    CASE phase = "Detect" -> DetectSteps(b)
      [] phase = "Analyze" -> AnalyzeSteps(b)
      [] phase = "Build" -> BuildSteps(b)
      [] phase = "Export" -> ExportSteps(b)
      [] OTHER -> <<>>

\* the command of the phase's container
Cmd(phase) ==
    CASE phase = "Detect" -> "/lifecycle/detector"
      [] phase = "Analyze" -> "/lifecycle/analyzer"
      [] phase = "Build" -> "/lifecycle/builder"
      [] OTHER -> "/lifecycle/exporter"

\* the User of the phase's container; "" is the user of the builder image
User(phase, b) ==
    IF phase \in {"Analyze", "Export"} /\ ~b.Publish THEN "root" ELSE ""

dockerSock == "/var/run/docker.sock"

\* the container of a phase that gets the docker socket in publish mode too
ContainerConfSocketAlways(phase, b) ==
    IF phase \in {"Analyze", "Export"}
        THEN IF b.Publish
                THEN [Env |-> {"PACK_REGISTRY_AUTH"}, daemon |-> FALSE, NetworkMode |-> "host",
                      Binds |-> {launchDir, dockerSock}]
                ELSE [Env |-> {}, daemon |-> TRUE, NetworkMode |-> "", Binds |-> {launchDir, dockerSock}]
    ELSE [Env |-> {}, daemon |-> FALSE, NetworkMode |-> "", Binds |-> {launchDir}]

\* what ContainerCreate is given for the container of a phase besides Cmd
\* and User: the names of Env, whether Cmd holds -daemon, the NetworkMode
\* and the container paths of Binds
ContainerConf(phase, b) ==
    IF phase \in {"Analyze", "Export"}
        THEN IF b.Publish
                THEN [Env |-> {"PACK_REGISTRY_AUTH"}, daemon |-> FALSE, NetworkMode |-> "host",
                      Binds |-> {launchDir}]
                ELSE [Env |-> {}, daemon |-> TRUE, NetworkMode |-> "", Binds |-> {launchDir, dockerSock}]
    ELSE [Env |-> {}, daemon |-> FALSE, NetworkMode |-> "", Binds |-> {launchDir}]

\* the same for the container of chownDir
ChownConf == [Env |-> {}, daemon |-> FALSE, NetworkMode |-> "", Binds |-> {launchDir}]

\* the directory a phase hands to chownDir
ChownPath(phase) == IF phase = "Detect" THEN "/workspace/app" ELSE launchDir

\* the message a phase wraps a failed call in
Wrap(phase, step) ==
    CASE step = "VolumeRemove" -> "clearing cache"
      [] step = "authHeader" -> ErrAuth
      [] step = "ContainerCreate" ->
            (CASE phase = "Detect" -> "container create"
               [] phase = "Analyze" -> "analyze container create"
               [] phase = "Build" -> "build container create"
               [] OTHER -> "create export container")
      [] step = "copyBuildpacksToContainer" -> "copy buildpacks to container"
      [] step = "CopyApp" -> "copy app to workspace volume"
      [] step = "packUidGid" -> (IF phase = "Detect" THEN "get pack uid gid" ELSE "get pack uid and gid")
      [] step = "chownDir" -> (IF phase = "Detect" THEN "chown app to workspace volume" ELSE "chown launch dir")
      [] step = "CopyOrder" -> "creating /buildpacks/order.toml"
      [] step = "copyEnvsToContainer" -> "create env files"
      [] OTHER ->
            (CASE phase = "Detect" -> "run detect container"
               [] phase = "Analyze" -> "analyze run container"
               [] phase = "Build" -> "running builder in container"
               [] OTHER -> "run lifecycle/exporter")

InPhase == pc.phase \in Range(Phases)
AtStep(step) ==
    /\ InPhase /\ pc.mode = "call"
    /\ pc.idx \in 1..Len(Steps(pc.phase, bcfg))
    /\ Steps(pc.phase, bcfg)[pc.idx] = step

\* the position after the current call returned nil: the next call, or the
\* deferred calls when the function's last statement is reached
Advance(p) ==
    IF p.idx < Len(Steps(p.phase, bcfg)) THEN [p EXCEPT !.idx = p.idx + 1, !.bp = 0, !.chown = "idle"]
    ELSE [p EXCEPT !.idx = p.idx + 1, !.mode = "defer", !.bp = 0, !.chown = "idle"]

\* the position after the current call failed: the deferred ContainerRemove
\* when the phase's container was created, the return otherwise
Abort(p) == [p EXCEPT !.mode = IF p.ctr = 0 THEN "return" ELSE "defer", !.chown = "idle"]

\* a call that either returns nil or fails, and changes nothing else
Call(step, ok) ==
    /\ log' = Append(log, Event(step, pc.phase, ok, ""))
    /\ pc' = IF ok THEN Advance(pc) ELSE Abort(pc)
    /\ perr' = IF ok THEN perr ELSE Wrap(pc.phase, step)
    /\ UNCHANGED <<bcfg, ctrs, runRet, uidVars>>

NewContainer(cmd, user) == [cmd |-> cmd, user |-> user, state |-> "created"]

\* what Run does when a phase returned err, with the error dropped
RunAfterIgnoringError(phase, err) ==
    IF phase = "Export" THEN [done |-> TRUE, err |-> NoErr, next |-> "done"]
    ELSE [done |-> FALSE, err |-> NoErr, next |-> Phases[IndexOf(Phases, phase) + 1]]

\* what Run does when a phase returned err: return it, or call the next
\* phase, or return nil after Export
RunAfter(phase, err) ==
    IF err # NoErr THEN [done |-> TRUE, err |-> err, next |-> "done"]
    ELSE IF phase = "Export" THEN [done |-> TRUE, err |-> NoErr, next |-> "done"]
    ELSE [done |-> FALSE, err |-> NoErr, next |-> Phases[IndexOf(Phases, phase) + 1]]

EnterPhase(phase) == [NoPc EXCEPT !.phase = phase, !.idx = 1]

\* Run is called and calls Detect
RunStart ==
    /\ pc.phase = "idle" /\ ~runRet.done
    /\ pc' = EnterPhase("Detect")
    /\ log' = Append(log, Event("PhaseStart", "Detect", TRUE, ""))
    /\ UNCHANGED <<bcfg, perr, ctrs, runRet, uidVars>>

\* Detect: b.Cli.VolumeRemove(ctx, b.CacheVolume, true)
VolumeRemove ==
    /\ AtStep("VolumeRemove")
    /\ \E ok \in BOOLEAN : Call("VolumeRemove", ok)

\* Analyze, Export: authHeader(b.RepoName)
AuthHeader ==
    /\ AtStep("authHeader")
    /\ \E ok \in BOOLEAN : Call("authHeader", ok)

\* b.Cli.ContainerCreate of the phase's container
ContainerCreate ==
    /\ AtStep("ContainerCreate")
    /\ \E ok \in BOOLEAN :
        /\ log' = Append(log, Event("ContainerCreate", pc.phase, ok, Cmd(pc.phase)))
        /\ ctrs' = IF ok THEN Append(ctrs, NewContainer(Cmd(pc.phase), User(pc.phase, bcfg)) @@ ContainerConf(pc.phase, bcfg)) ELSE ctrs
        /\ pc' = IF ok THEN Advance([pc EXCEPT !.ctr = Len(ctrs) + 1]) ELSE Abort(pc)
        /\ perr' = IF ok THEN perr ELSE Wrap(pc.phase, "ContainerCreate")
    /\ UNCHANGED <<bcfg, runRet, uidVars>>

\* one iteration of the loop of copyBuildpacksToContainer
CopyBuildpack ==
    /\ AtStep("copyBuildpacksToContainer")
    /\ LET i == pc.bp + 1
           flag == bcfg.Buildpacks[i]
           kind == flag.kind
           outcomes == IF kind = "ref" THEN {"ok"}
                       ELSE IF bcfg.GOOS = "windows" THEN {"windows"}
                       ELSE {"ok", "decode", "copy", "errChan"}
       IN
       \E out \in outcomes :
        /\ log' = Append(log, [Event("CopyBuildpack", pc.phase, out = "ok", IF kind = "ref" THEN "ref" ELSE out) EXCEPT
                                !.tars = IF kind = "ref" \/ out \in {"windows", "decode"} THEN 0 ELSE TarCopy(out).tars,
                                !.recv = IF kind = "ref" \/ out \in {"windows", "decode"} THEN 0 ELSE TarCopy(out).recv,
                                !.flag = flag,
                                !.bp = IF out = "ok" THEN <<LifecycleBuildpack(flag)>> ELSE <<>>])
        /\ pc' = LET buildpacks == IF i = 1 THEN <<>> ELSE pc.bps IN
                 IF out # "ok" THEN Abort(pc)
                 ELSE IF i < Len(bcfg.Buildpacks)
                     THEN [pc EXCEPT !.bp = i, !.bps = Append(buildpacks, LifecycleBuildpack(flag))]
                 ELSE Advance([pc EXCEPT !.bps = Append(buildpacks, LifecycleBuildpack(flag))])
        /\ perr' = IF out = "ok" THEN perr ELSE Wrap(pc.phase, "copyBuildpacksToContainer")
    /\ UNCHANGED <<bcfg, ctrs, runRet, uidVars>>

\* Detect: the app directory is copied to /workspace/app
CopyApp ==
    /\ AtStep("CopyApp")
    /\ \E out \in {"ok", "copy", "errChan"} :
        /\ log' = Append(log, [Event("CopyApp", pc.phase, out = "ok", out) EXCEPT
                                !.tars = TarCopy(out).tars, !.recv = TarCopy(out).recv])
        /\ pc' = IF out = "ok" THEN Advance(pc) ELSE Abort(pc)
        /\ perr' = IF out = "ok" THEN perr ELSE Wrap(pc.phase, "CopyApp")
    /\ UNCHANGED <<bcfg, ctrs, runRet, uidVars>>

\* b.packUidGid(b.Builder)
PackUidGidStep ==
    /\ AtStep("packUidGid")
    /\ \E inspectOk \in BOOLEAN :
        LET r == IF inspectOk THEN PackUidGid(uenv) ELSE [uid |-> 0, gid |-> 0, err |-> ErrReadEnv] IN
        /\ ures' = [done |-> TRUE] @@ r
        /\ log' = Append(log, [Event("packUidGid", pc.phase, r.err = NoErr, r.err) EXCEPT !.uid = r.uid, !.gid = r.gid])
        /\ pc' = IF r.err = NoErr THEN Advance(pc) ELSE Abort(pc)
        /\ perr' = IF r.err = NoErr THEN perr ELSE Wrap(pc.phase, "packUidGid")
    /\ UNCHANGED <<bcfg, ctrs, runRet, uenv>>

\* chownDir: b.Cli.ContainerCreate of the chown container
ChownCreate ==
    /\ AtStep("chownDir") /\ pc.chown = "idle"
    /\ \E ok \in BOOLEAN :
        /\ log' = Append(log, Event("ChownCreate", pc.phase, ok, ChownPath(pc.phase)))
        /\ ctrs' = IF ok THEN Append(ctrs, NewContainer("chown", "root") @@ ChownConf) ELSE ctrs
        /\ pc' = IF ok THEN [pc EXCEPT !.chown = "created", !.chownCtr = Len(ctrs) + 1] ELSE Abort(pc)
        /\ perr' = IF ok THEN perr ELSE Wrap(pc.phase, "chownDir")
    /\ UNCHANGED <<bcfg, runRet, uidVars>>

\* chownDir: b.Cli.RunContainer of the chown container
ChownRun ==
    /\ AtStep("chownDir") /\ pc.chown = "created"
    /\ \E ok \in BOOLEAN :
        /\ log' = Append(log, [Event("ChownRun", pc.phase, ok, ChownPath(pc.phase)) EXCEPT !.uid = ures.uid, !.gid = ures.gid])
        /\ ctrs' = [ctrs EXCEPT ![pc.chownCtr].state = "exited"]
        /\ pc' = [pc EXCEPT !.chown = IF ok THEN "ok" ELSE "err"]
    /\ UNCHANGED <<bcfg, perr, runRet, uidVars>>

\* chownDir: the deferred b.Cli.ContainerRemove, whose error is dropped,
\* and the return
ChownRemove ==
    /\ AtStep("chownDir") /\ pc.chown \in {"ok", "err"}
    /\ \E removed \in BOOLEAN :
        /\ log' = Append(log, Event("ChownRemove", pc.phase, removed, ChownPath(pc.phase)))
        /\ ctrs' = IF removed THEN [ctrs EXCEPT ![pc.chownCtr].state = "removed"] ELSE ctrs
    /\ pc' = IF pc.chown = "ok" THEN Advance([pc EXCEPT !.chownCtr = 0]) ELSE Abort([pc EXCEPT !.chownCtr = 0])
    /\ perr' = IF pc.chown = "ok" THEN perr ELSE Wrap(pc.phase, "chownDir")
    /\ UNCHANGED <<bcfg, runRet, uidVars>>

\* Detect: the order.toml of the --buildpack flags is copied to the container
CopyOrder ==
    /\ AtStep("CopyOrder")
    /\ \E out \in {"ok", "tar", "copy"} :
        /\ log' = Append(log, [Event("CopyOrder", pc.phase, out = "ok", out) EXCEPT !.groups = OrderGroups(pc.bps)])
        /\ pc' = IF out = "ok" THEN Advance(pc) ELSE Abort(pc)
        /\ perr' = CASE out = "ok" -> perr
                     [] out = "tar" -> "converting order TOML to tar reader"
                     [] OTHER -> Wrap(pc.phase, "CopyOrder")
    /\ UNCHANGED <<bcfg, ctrs, runRet, uidVars>>

\* copyEnvsToContainer when b.EnvFile is not empty
CopyEnvs ==
    /\ AtStep("copyEnvsToContainer")
    /\ \E out \in {"ok", "tar", "copy"} :
        /\ log' = Append(log, Event("CopyEnvs", pc.phase, out = "ok", out))
        /\ pc' = IF out = "ok" THEN Advance(pc) ELSE Abort(pc)
        /\ perr' = IF out = "ok" THEN perr ELSE Wrap(pc.phase, "copyEnvsToContainer")
    /\ UNCHANGED <<bcfg, ctrs, runRet, uidVars>>

\* b.Cli.RunContainer of the phase's container: nil when the container ran
\* and exited with status 0
RunContainer ==
    /\ AtStep("RunContainer")
    /\ \E ok \in BOOLEAN :
        /\ log' = Append(log, Event("RunContainer", pc.phase, ok, Cmd(pc.phase)))
        /\ ctrs' = [ctrs EXCEPT ![pc.ctr].state = "exited"]
        /\ pc' = IF ok THEN Advance(pc) ELSE Abort(pc)
        /\ perr' = IF ok THEN perr ELSE Wrap(pc.phase, "RunContainer")
    /\ UNCHANGED <<bcfg, runRet, uidVars>>

\* the deferred b.Cli.ContainerRemove of the phase's container; its error
\* is dropped
ContainerRemove ==
    /\ InPhase /\ pc.mode = "defer"
    /\ \E removed \in BOOLEAN :
        /\ log' = Append(log, Event("ContainerRemove", pc.phase, removed, Cmd(pc.phase)))
        /\ ctrs' = IF removed THEN [ctrs EXCEPT ![pc.ctr].state = "removed"] ELSE ctrs
    /\ pc' = [pc EXCEPT !.mode = "return", !.ctr = 0]
    /\ UNCHANGED <<bcfg, perr, runRet, uidVars>>

\* the phase returns perr to Run, which returns it or calls the next phase
PhaseReturn ==
    /\ InPhase /\ pc.mode = "return"
    /\ LET r == RunAfter(pc.phase, perr)
           returned == Append(log, Event("PhaseReturn", pc.phase, perr = NoErr, perr))
       IN
       /\ runRet' = IF r.done THEN [done |-> TRUE, err |-> r.err] ELSE runRet
       /\ pc' = IF r.done THEN [NoPc EXCEPT !.phase = "done"] ELSE EnterPhase(r.next)
       /\ log' = IF r.done THEN returned ELSE Append(returned, Event("PhaseStart", r.next, TRUE, ""))
    /\ perr' = NoErr
    /\ UNCHANGED <<bcfg, ctrs, uidVars>>

InitRun ==
    /\ bcfg \in [ClearCache : BOOLEAN, Publish : BOOLEAN, EnvFile : BOOLEAN,
                 Buildpacks : SeqsUpTo(BuildpackFlags, MaxBuildpacks), GOOS : {"linux", "windows"},
                 CacheVolume : CacheVolumes]
    /\ uenv \in BuilderEnvs
    /\ ures = NoResult
    /\ pc = NoPc
    /\ perr = NoErr
    /\ ctrs = <<>>
    /\ log = <<>>
    /\ runRet = [done |-> FALSE, err |-> NoErr]
    /\ ImageIdle
    /\ FlagsIdle
    /\ BuilderIdle
    /\ CliIdle
    /\ SaveIdle
    /\ TarIdle

NextRun ==
    \/ RunStart /\ UNCHANGED <<imgVars, flagVars, bldVars, cliVars, saveVars, tarVars>>
    \/ VolumeRemove /\ UNCHANGED <<imgVars, flagVars, bldVars, cliVars, saveVars, tarVars>>
    \/ AuthHeader /\ UNCHANGED <<imgVars, flagVars, bldVars, cliVars, saveVars, tarVars>>
    \/ ContainerCreate /\ UNCHANGED <<imgVars, flagVars, bldVars, cliVars, saveVars, tarVars>>
    \/ CopyBuildpack /\ UNCHANGED <<imgVars, flagVars, bldVars, cliVars, saveVars, tarVars>>
    \/ CopyApp /\ UNCHANGED <<imgVars, flagVars, bldVars, cliVars, saveVars, tarVars>>
    \/ PackUidGidStep /\ UNCHANGED <<imgVars, flagVars, bldVars, cliVars, saveVars, tarVars>>
    \/ ChownCreate /\ UNCHANGED <<imgVars, flagVars, bldVars, cliVars, saveVars, tarVars>>
    \/ ChownRun /\ UNCHANGED <<imgVars, flagVars, bldVars, cliVars, saveVars, tarVars>>
    \/ ChownRemove /\ UNCHANGED <<imgVars, flagVars, bldVars, cliVars, saveVars, tarVars>>
    \/ CopyOrder /\ UNCHANGED <<imgVars, flagVars, bldVars, cliVars, saveVars, tarVars>>
    \/ CopyEnvs /\ UNCHANGED <<imgVars, flagVars, bldVars, cliVars, saveVars, tarVars>>
    \/ RunContainer /\ UNCHANGED <<imgVars, flagVars, bldVars, cliVars, saveVars, tarVars>>
    \/ ContainerRemove /\ UNCHANGED <<imgVars, flagVars, bldVars, cliVars, saveVars, tarVars>>
    \/ PhaseReturn /\ UNCHANGED <<imgVars, flagVars, bldVars, cliVars, saveVars, tarVars>>

SpecRun == InitRun /\ [][NextRun]_vars

\* Run with the --buildpack flags ranging over directories and over
\* references with no, one and several "@"
InitBuildpacks ==
    /\ bcfg \in [ClearCache : BOOLEAN, Publish : BOOLEAN, EnvFile : BOOLEAN,
                 Buildpacks : SeqsUpTo({DirBuildpack} \cup {RefBuildpack(r) : r \in BuildpackRefs}, MaxBuildpacks),
                 GOOS : {"linux"}, CacheVolume : {"new"}]
    /\ uenv = <<<<"PACK_USER_ID", "=", "1">>, <<"PACK_GROUP_ID", "=", "2", "1">>>>
    /\ ures = NoResult
    /\ pc = NoPc
    /\ perr = NoErr
    /\ ctrs = <<>>
    /\ log = <<>>
    /\ runRet = [done |-> FALSE, err |-> NoErr]
    /\ ImageIdle
    /\ FlagsIdle
    /\ BuilderIdle
    /\ CliIdle
    /\ SaveIdle
    /\ TarIdle

SpecBuildpacks == InitBuildpacks /\ [][NextRun]_vars

(***************************************************************************)
(* BuildFactory.BuildConfigFromFlags and the run image of a stack          *)
(*                                                                         *)
(* An image reference is the sequence of its components between "/";       *)
(* the empty string is the empty sequence.                                 *)
(***************************************************************************)
DefaultRegistry == "index.docker.io"
DefaultBuilder == <<"packs", "samples">>
DefaultRepoName == <<"pack.local", "run", "md5-of-app-dir">>
DefaultStackID == "io.buildpacks.stacks.bionic"
HostComponents == {"registry.com", "pack.local"}
BadComponents == {"Not A Name"}
RunImageRefs == {<<"some", "run">>, <<"registry.com", "some", "run">>, <<"Not A Name">>}
NoImageLabel == "<no image>"
StackIds == {"some.stack.id", "other.stack.id"}

\* name.ParseReference(s, name.WeakValidation) succeeds
ParseOk(ref) == ref # <<>> /\ \A i \in 1..Len(ref) : ref[i] \notin BadComponents

\* ref.Context().RegistryStr(): the first component when it names a host
RegistryStr(ref) == IF Len(ref) > 1 /\ ref[1] \in HostComponents THEN ref[1] ELSE DefaultRegistry

\* config.Registry(repoName): the registry of the target repository
Registry(repoName) ==
    IF ParseOk(repoName) THEN [reg |-> RegistryStr(repoName), err |-> NoErr]
    ELSE [reg |-> "", err |-> "could not parse reference"]

\* Config.Get(stackID) over the stacks of the pack config
Get(stacks, stackID) ==
    LET id == IF stackID = "" THEN DefaultStackID ELSE stackID IN
    IF \E i \in 1..Len(stacks) : stacks[i].ID = id
    THEN [stack |-> stacks[CHOOSE i \in 1..Len(stacks) : stacks[i].ID = id /\ \A j \in 1..(i-1) : stacks[j].ID # id],
          err |-> NoErr]
    ELSE [stack |-> [ID |-> "", RunImages |-> <<>>], err |-> "Missing stack"]

\* ImageByRegistry that does not look at the registries
ImageByRegistryFirst(registry, images) ==
    IF Len(images) = 0 THEN [image |-> <<>>, err |-> "empty images"]
    ELSE [image |-> images[1], err |-> NoErr]

\* the loop of ImageByRegistry from entry i on
RECURSIVE ImageLoop(_, _, _)
ImageLoop(registry, images, i) ==
    IF i > Len(images) THEN images[1]
    ELSE IF ParseOk(images[i]) /\ RegistryStr(images[i]) = registry THEN images[i]
    ELSE ImageLoop(registry, images, i + 1)

ImageByRegistry(registry, images) ==
    IF Len(images) = 0 THEN [image |-> <<>>, err |-> "empty images"]
    ELSE [image |-> ImageLoop(registry, images, 1), err |-> NoErr]

\* Image.Label("io.buildpacks.stack.id") of an image whose label is l
StackIdLabel(l) ==
    IF l = NoImageLabel THEN [val |-> "", err |-> "image does not exist"] ELSE [val |-> l, err |-> NoErr]

\* the checks of the builder's stack id that take an empty label
BuilderStackCheckErrOnly(builderLabel, builder) ==
    IF builderLabel.err # NoErr THEN [FlagErr("invalid builder image") EXCEPT !.builder = builder]
    ELSE FlagNil

\* the checks of the builder's stack id
BuilderStackCheck(builderLabel, builder) ==
    IF builderLabel.err # NoErr THEN [FlagErr("invalid builder image") EXCEPT !.builder = builder]
    ELSE IF builderLabel.val = "" THEN [FlagErr("invalid builder image: missing required label") EXCEPT !.builder = builder]
    ELSE FlagNil

\* the checks of the run image's stack id, without the comparison
RunStackCheckNoCompare(builderStackID, runLabel, runImage, builder) ==
    IF runLabel.err # NoErr THEN [FlagErr("invalid run image") EXCEPT !.runImage = runImage]
    ELSE IF runLabel.val = "" THEN [FlagErr("invalid run image: missing required label") EXCEPT !.runImage = runImage]
    ELSE FlagNil

\* the checks of the run image's stack id
RunStackCheck(builderStackID, runLabel, runImage, builder) ==
    IF runLabel.err # NoErr THEN [FlagErr("invalid run image") EXCEPT !.runImage = runImage]
    ELSE IF runLabel.val = "" THEN [FlagErr("invalid run image: missing required label") EXCEPT !.runImage = runImage]
    ELSE IF builderStackID # runLabel.val
        THEN [msg |-> "invalid stack", runId |-> runLabel.val, runImage |-> runImage,
              builderId |-> builderStackID, builder |-> builder]
    ELSE FlagNil

\* the stacks of the pack config: the stack of the flags, then the default
\* stack that config.New adds
ConfigStacks(f) ==
    << [ID |-> "some.stack.id", RunImages |-> f.RunImages],
       [ID |-> DefaultStackID, RunImages |-> << <<"packs", "run">> >>] >>

\* ImageFactory.NewLocal(ref, pull): the calls it makes
OpenLocal(ref, pull) ==
    << <<"NewLocal", ref>> >> \o (IF pull THEN << <<"PullImage", ref>> >> ELSE <<>>)

\* the opening of the run image that never asks the registry
OpenRunImageLocal(f, runImage) == OpenLocal(runImage, TRUE)

\* the opening of the run image: NewRemote when publishing, else NewLocal
OpenRunImage(f, runImage) ==
    IF f.Publish THEN << <<"NewRemote", runImage>> >> ELSE OpenLocal(runImage, ~f.NoPull)

\* filepath.Clean of the elements of a path: ".." takes the element before
\* it away, stays at the start of a relative path and is dropped at "/"
RECURSIVE CleanParts(_, _, _)
CleanParts(abs, done, rest) ==
    IF rest = <<>> THEN done
    ELSE IF rest[1] # ".." THEN CleanParts(abs, Append(done, rest[1]), Tail(rest))
    ELSE IF done # <<>> /\ done[Len(done)] # ".." THEN CleanParts(abs, SubSeq(done, 1, Len(done) - 1), Tail(rest))
    ELSE IF abs THEN CleanParts(abs, done, Tail(rest))
    ELSE CleanParts(abs, Append(done, ".."), Tail(rest))

\* filepath.Abs(path) in the working directory wd; os.Getwd may fail
Abs(path, wd, getwdOk) ==
    IF path.abs THEN [path |-> [abs |-> TRUE, parts |-> CleanParts(TRUE, <<>>, path.parts)], err |-> NoErr]
    ELSE IF ~getwdOk THEN [path |-> EmptyPath, err |-> "getwd"]
    ELSE [path |-> [abs |-> TRUE, parts |-> CleanParts(TRUE, <<>>, wd \o path.parts)], err |-> NoErr]

\* the placeholder that takes every AppDir as given
AppDirAsGiven(f) == Abs(f.AppDir, f.wd, f.getwdOk)

\* the AppDir of the BuildConfig: the working directory for the empty
\* AppDir, and the absolute path of the AppDir
AppDirOf(f) ==
    IF f.AppDir = EmptyPath /\ ~f.getwdOk THEN [path |-> EmptyPath, err |-> "getwd"]
    ELSE Abs(IF f.AppDir = EmptyPath THEN [abs |-> TRUE, parts |-> f.wd] ELSE f.AppDir, f.wd, f.getwdOk)

Returned(err, config, trace) == [done |-> TRUE, ok |-> err = FlagNil, err |-> err, config |-> config, trace |-> trace]

\* BuildConfigFromFlags(f); o says which of the calls it makes fail
BuildConfigFromFlags(f, o) ==
    LET repoName == IF f.RepoName = <<>> THEN DefaultRepoName ELSE f.RepoName
        builder == IF f.Builder = <<>> THEN DefaultBuilder ELSE f.Builder
        appDir == AppDirOf(f)
        b0 == [AppDir |-> appDir.path, RepoName |-> repoName, Publish |-> f.Publish, NoPull |-> f.NoPull,
               EnvFile |-> f.EnvFile # "", Builder |-> builder, RunImage |-> <<>>]
        t0 == OpenLocal(builder, ~f.NoPull)
        t1 == Append(t0, <<"Label", builder>>)
        builderLabel == StackIdLabel(f.builderLabel)
        builderErr == BuilderStackCheck(builderLabel, builder)
        got == Get(ConfigStacks(f), builderLabel.val)
        reg == Registry(repoName)
        sel == ImageByRegistry(reg.reg, got.stack.RunImages)
        runImage == IF f.RunImage # <<>> THEN f.RunImage ELSE sel.image
        b1 == [b0 EXCEPT !.RunImage = runImage]
        t2 == IF f.RunImage # <<>> THEN t1 ELSE Append(t1, <<"ImageByRegistry", sel.image>>)
        t3 == t2 \o OpenRunImage(f, runImage)
        t4 == Append(t3, <<"Label", runImage>>)
        runErr == RunStackCheck(builderLabel.val, StackIdLabel(f.runLabel), runImage, builder)
    IN
    IF appDir.err # NoErr THEN Returned(FlagErr(appDir.err), <<>>, <<>>)
    ELSE IF f.EnvFile = "missing.env" THEN Returned(FlagErr("open missing.env"), <<>>, <<>>)
    ELSE IF ~o.builderOpen THEN Returned(FlagErr("open builder image"), <<>>, t0)
    ELSE IF builderErr # FlagNil THEN Returned(builderErr, <<>>, t1)
    ELSE IF got.err # NoErr THEN Returned(FlagErr(got.err), <<>>, t1)
    ELSE IF f.RunImage = <<>> /\ reg.err # NoErr THEN Returned(FlagErr(reg.err), <<>>, t1)
    ELSE IF f.RunImage = <<>> /\ sel.err # NoErr THEN Returned(FlagErr(sel.err), <<>>, t2)
    ELSE IF ~o.runOpen THEN Returned(FlagErr("open run image"), <<>>, t3)
    ELSE IF runErr # FlagNil THEN Returned(runErr, <<>>, t4)
    ELSE IF ~o.cacheVolume THEN Returned(FlagErr("cache volume"), <<>>, t4)
    ELSE Returned(FlagNil, <<b1>>, t4)

\* a call of BuildConfigFromFlags
CallBuildConfigFromFlags ==
    /\ ~fres.done
    /\ \E o \in [builderOpen : BOOLEAN, runOpen : BOOLEAN, cacheVolume : BOOLEAN] :
        fres' = BuildConfigFromFlags(flags, o)
    /\ UNCHANGED flags

InitFlags ==
    /\ flags \in [Builder : {<<>>, <<"some", "builder">>},
                  RunImage : {<<>>, <<"override", "run">>},
                  RepoName : {<<>>, <<"some", "app">>, <<"registry.com", "some", "app">>, <<"Not A Name">>},
                  EnvFile : {"", "app.env", "missing.env"},
                  Publish : BOOLEAN, NoPull : BOOLEAN,
                  builderLabel : StackIds \cup {"", NoImageLabel},
                  runLabel : StackIds \cup {"", NoImageLabel},
                  RunImages : SeqsUpTo(RunImageRefs, MaxRunImages),
                  AppDir : {EmptyPath}, wd : {<<"work">>}, getwdOk : {TRUE}]
    /\ fres = NoReturn
    /\ ImageIdle
    /\ UidIdle
    /\ RunIdle
    /\ BuilderIdle
    /\ CliIdle
    /\ SaveIdle
    /\ TarIdle

NextFlags == CallBuildConfigFromFlags /\ UNCHANGED <<imgVars, uidVars, runVars, bldVars, cliVars, saveVars, tarVars>>

SpecFlags == InitFlags /\ [][NextFlags]_vars

\* BuildConfigFromFlags over the values of --path and the working directories
PathElements == {"app", "..", "current working directory"}
WorkingDirs == {<<"work">>, <<"work", "src">>}
InitAppDir ==
    /\ flags \in [Builder : {<<"some", "builder">>},
                  RunImage : {<<"override", "run">>},
                  RepoName : {<<"some", "app">>},
                  EnvFile : {""},
                  Publish : BOOLEAN, NoPull : BOOLEAN,
                  builderLabel : {"some.stack.id"},
                  runLabel : StackIds,
                  RunImages : {<<>>},
                  AppDir : [abs : BOOLEAN, parts : SeqsUpTo(PathElements, MaxPath)],
                  wd : WorkingDirs, getwdOk : BOOLEAN]
    /\ fres = NoReturn
    /\ ImageIdle
    /\ UidIdle
    /\ RunIdle
    /\ BuilderIdle
    /\ CliIdle
    /\ SaveIdle
    /\ TarIdle

SpecAppDir == InitAppDir /\ [][NextFlags]_vars

(***************************************************************************)
(* BuilderFactory.Create                                                   *)
(*                                                                         *)
(* An image is the sequence of its layers, the base image's first.         *)
(***************************************************************************)
\* a buildpack id is the sequence of its characters, a run of letters
\* taken as one
BuildpackIds == {<<"bp", ".", "one">>, <<"org", "/", "bp">>}
buildpacksDir == <<"/buildpacks">>

\* filepath.Join(a, b)
PathJoin(a, b) == a \o <<"/">> \o b

\* Buildpack.escapedID(): the id with every "/" replaced by "_"
EscapedID(id) == [i \in 1..Len(id) |-> IF id[i] = "/" THEN "_" ELSE id[i]]

\* bpDir of copyBuildpacksToContainer: where build puts a directory buildpack
BpDir(id, version) == PathJoin(PathJoin(buildpacksDir, EscapedID(id)), <<version>>)

\* what the buildpack.toml under a buildpack's URI holds
TomlStates == {"ok", "unreadable", "other id", "no version"}
OrderTar == [kind |-> "order", id |-> <<>>, version |-> "", dir |-> buildpacksDir]
BaseImage == <<BaseLayer>>

\* the id and the version of the buildpack.toml of a buildpack
TomlOf(buildpack) ==
    [ID |-> IF buildpack.toml = "other id" THEN <<"bp", ".", "other">> ELSE buildpack.ID,
     Version |-> IF buildpack.toml = "no version" THEN "" ELSE "1.0"]

\* the checks of a buildpackLayer that takes any buildpack.toml it can read
BuildpackLayerErrReadOnly(buildpack) ==
    IF buildpack.toml = "unreadable" THEN "reading buildpack.toml from buildpack" ELSE NoErr

\* the checks of buildpackLayer before the layer is written
BuildpackLayerErr(buildpack) ==
    IF buildpack.toml = "unreadable" THEN "reading buildpack.toml from buildpack"
    ELSE IF buildpack.ID # TomlOf(buildpack).ID THEN "buildpack ids did not match"
    ELSE IF TomlOf(buildpack).Version = "" THEN "buildpack.toml must provide version"
    ELSE NoErr

\* the layer buildpackLayer writes: the buildpack's directory under
\* filepath.Join("/buildpacks", buildpack.ID, bp.Version)
BuildpackTar(buildpack) ==
    [kind |-> "buildpack", id |-> buildpack.ID, version |-> TomlOf(buildpack).Version,
     dir |-> PathJoin(PathJoin(buildpacksDir, buildpack.ID), <<TomlOf(buildpack).Version>>)]

\* Create returns err
CreateReturn(err) == [bst EXCEPT !.pc = "done", !.err = err]

\* ioutil.TempDir("", "create-builder")
CreateTempDir ==
    /\ bst.pc = "idle"
    /\ \E ok \in BOOLEAN :
        bst' = IF ok THEN [bst EXCEPT !.pc = "orderLayer"] ELSE CreateReturn("failed to create temporary directory")
    /\ UNCHANGED bconf

\* f.orderLayer(tmpDir, config.Groups)
OrderLayer ==
    /\ bst.pc = "orderLayer"
    /\ \E ok \in BOOLEAN :
        bst' = IF ok THEN [bst EXCEPT !.pc = "appendOrder", !.tarFile = OrderTar]
               ELSE CreateReturn("failed generate order.toml layer")
    /\ UNCHANGED bconf

\* the position after a layer was appended: the next buildpack, or the write
NextBuildpack(st) ==
    IF st.i < Len(bconf) THEN [st EXCEPT !.pc = "buildpackLayer", !.i = st.i + 1]
    ELSE [st EXCEPT !.pc = "write"]

\* img.Append(config.BaseImage, orderTar)
AppendOrder ==
    /\ bst.pc = "appendOrder"
    /\ \E ok \in BOOLEAN :
        bst' = IF ok THEN NextBuildpack([bst EXCEPT !.image = Append(BaseImage, bst.tarFile)])
               ELSE CreateReturn("failed append order.toml layer to image")
    /\ UNCHANGED bconf

\* f.buildpackLayer(tmpDir, buildpack) of the loop of Create
BuildpackLayer ==
    /\ bst.pc = "buildpackLayer"
    /\ LET buildpack == bconf[bst.i] IN
       \E tgzOk \in BOOLEAN :
        bst' = IF BuildpackLayerErr(buildpack) = NoErr /\ tgzOk
               THEN [bst EXCEPT !.pc = "appendBuildpack", !.tarFile = BuildpackTar(buildpack)]
               ELSE [CreateReturn("failed generate layer for buildpack") EXCEPT
                        !.cause = IF BuildpackLayerErr(buildpack) # NoErr THEN BuildpackLayerErr(buildpack)
                                  ELSE "create tgz file"]
    /\ UNCHANGED bconf

\* img.Append(builderImage, tarFile) of the loop of Create
AppendBuildpack ==
    /\ bst.pc = "appendBuildpack"
    /\ \E ok \in BOOLEAN :
        bst' = IF ok THEN NextBuildpack([bst EXCEPT !.image = Append(bst.image, bst.tarFile)])
               ELSE CreateReturn("failed append buildpack layer to image")
    /\ UNCHANGED bconf

\* config.Repo.Write(builderImage)
RepoWrite ==
    /\ bst.pc = "write"
    /\ \E ok \in BOOLEAN :
        bst' = IF ok THEN [CreateReturn(NoErr) EXCEPT !.written = bst.image]
               ELSE CreateReturn("write builder image")
    /\ UNCHANGED bconf

InitBuilder ==
    /\ bconf \in SeqsUpTo([ID : BuildpackIds, toml : TomlStates], MaxBps)
    /\ bst = NoCreate
    /\ ImageIdle
    /\ UidIdle
    /\ RunIdle
    /\ FlagsIdle
    /\ CliIdle
    /\ SaveIdle
    /\ TarIdle

NextBuilder ==
    \/ CreateTempDir /\ UNCHANGED <<imgVars, uidVars, runVars, flagVars, cliVars, saveVars, tarVars>>
    \/ OrderLayer /\ UNCHANGED <<imgVars, uidVars, runVars, flagVars, cliVars, saveVars, tarVars>>
    \/ AppendOrder /\ UNCHANGED <<imgVars, uidVars, runVars, flagVars, cliVars, saveVars, tarVars>>
    \/ BuildpackLayer /\ UNCHANGED <<imgVars, uidVars, runVars, flagVars, cliVars, saveVars, tarVars>>
    \/ AppendBuildpack /\ UNCHANGED <<imgVars, uidVars, runVars, flagVars, cliVars, saveVars, tarVars>>
    \/ RepoWrite /\ UNCHANGED <<imgVars, uidVars, runVars, flagVars, cliVars, saveVars, tarVars>>

SpecBuilder == InitBuilder /\ [][NextBuilder]_vars

(***************************************************************************)
(* The pack process: main, and config.New that its commands call           *)
(*                                                                         *)
(* config.toml holds a Config; a file that a user wrote may be longer      *)
(* than the encoding of the Config it holds (comments, spacing): extra.    *)
(***************************************************************************)
BionicID == "io.buildpacks.stacks.bionic"
BionicStack == [ID |-> BionicID, BuildImages |-> <<"packs/build">>, RunImages |-> <<"packs/run">>]
StackChoices ==
    {BionicStack,
     [ID |-> BionicID, BuildImages |-> <<"my/build">>, RunImages |-> <<"my/run">>],
     [ID |-> "my.stack", BuildImages |-> <<"my/build">>, RunImages |-> <<"my/run">>],
     [ID |-> "other.stack", BuildImages |-> <<"packs/build">>, RunImages |-> <<"packs/run">>]}
Commands == {"version", "add-stack", "build"}
ErrDecode == "decode config.toml"
ErrRead == "read config.toml"
ErrMkdir == "mkdir"
ErrOpenFile == "open config.toml"

\* the stack lists of a config.toml: no id twice
UniqueIds(stacks) == \A i, j \in 1..Len(stacks) : stacks[i].ID = stacks[j].ID => i = j
ConfigFiles ==
    {NoFile} \cup
    [state : {"ok"},
     config : [Stacks : {st \in SeqsUpTo(StackChoices, MaxStacks) : UniqueIds(st)},
               DefaultStackID : {"", BionicID, "my.stack"}],
     extra : BOOLEAN]

\* previousConfig(path): the Config of the file, the empty Config when the
\* file does not exist
previousConfig(file, readOk) ==
    IF file.state = "absent" THEN [config |-> EmptyConfig, err |-> NoErr]
    ELSE IF ~readOk THEN [config |-> EmptyConfig, err |-> ErrRead]
    ELSE IF file.state = "corrupt" THEN [config |-> EmptyConfig, err |-> ErrDecode]
    ELSE [config |-> file.config, err |-> NoErr]

appendStackIfMissing(config, stack) ==
    IF \E i \in 1..Len(config.Stacks) : config.Stacks[i].ID = stack.ID THEN config
    ELSE [config EXCEPT !.Stacks = Append(config.Stacks, stack)]

\* the Config that New returns and writes
Seeded(config) ==
    appendStackIfMissing(
        [config EXCEPT !.DefaultStackID = IF config.DefaultStackID = "" THEN BionicID ELSE config.DefaultStackID],
        BionicStack)

\* the files that can stand after New wrote the encoding of config over the
\* file: os.OpenFile without O_TRUNC keeps the bytes of the old file behind
\* the new ones. A file that was the encoding of its Config is not longer
\* than the encoding of the seeded one; a longer file that keeps bytes
\* either still decodes to the Config or does not decode.
Written(file, config) ==
    IF file.state = "absent" \/ ~file.extra THEN {[state |-> "ok", config |-> config, extra |-> FALSE]}
    ELSE IF config = file.config
        THEN {[state |-> "ok", config |-> config, extra |-> TRUE], [state |-> "corrupt", config |-> config, extra |-> TRUE]}
    ELSE {[state |-> "ok", config |-> config, extra |-> FALSE],
          [state |-> "ok", config |-> config, extra |-> TRUE],
          [state |-> "corrupt", config |-> config, extra |-> TRUE]}

\* New returned config and err
NewReturned(config, err) ==
    [done |-> TRUE, err |-> err, config |-> config,
     first |-> IF err = NoErr /\ cnew.first = <<>> THEN <<config>> ELSE cnew.first,
     orig |-> IF cnew.done THEN cnew.orig ELSE cfile]

\* the process exits with code
Exit(code) == [mst EXCEPT !.pc = "exited", !.exit = code]

\* rootCmd.Execute() of main: the command that the arguments name starts
Execute ==
    /\ mst.pc = "start"
    /\ \E cmd \in Commands, usageOk \in BOOLEAN :
        mst' = IF ~usageOk THEN Exit(1)
               ELSE IF cmd = "version" THEN [mst EXCEPT !.pc = "profile", !.cmd = cmd, !.cmdOk = TRUE]
               ELSE [mst EXCEPT !.pc = "config", !.cmd = cmd]
    /\ UNCHANGED <<cfile, cnew>>

\* config.New(path) in the command
ConfigNew ==
    /\ mst.pc = "config"
    /\ \E readOk, mkdirOk, openOk \in BOOLEAN :
        LET prev == previousConfig(cfile, readOk)
            config == Seeded(prev.config)
        IN
        IF prev.err # NoErr
        THEN cnew' = NewReturned(EmptyConfig, prev.err) /\ mst' = Exit(1) /\ UNCHANGED cfile
        ELSE IF ~mkdirOk
        THEN cnew' = NewReturned(EmptyConfig, ErrMkdir) /\ mst' = Exit(1) /\ UNCHANGED cfile
        ELSE IF ~openOk
        THEN cnew' = NewReturned(EmptyConfig, ErrOpenFile) /\ mst' = Exit(1) /\ UNCHANGED cfile
        ELSE /\ cfile' \in Written(cfile, config)
             /\ cnew' = NewReturned(config, NoErr)
             /\ mst' = [mst EXCEPT !.pc = "body"]

\* the rest of the command's RunE
CommandBody ==
    /\ mst.pc = "body"
    /\ \E ok \in BOOLEAN :
        mst' = IF ok THEN [mst EXCEPT !.pc = "profile", !.cmdOk = TRUE] ELSE Exit(1)
    /\ UNCHANGED <<cfile, cnew>>

\* os.Create("/tmp/pack.mem.prof") of main; log.Fatal exits with 1
CreateProfile ==
    /\ mst.pc = "profile"
    /\ \E ok \in BOOLEAN :
        mst' = IF ok THEN [mst EXCEPT !.pc = "heap"] ELSE Exit(1)
    /\ UNCHANGED <<cfile, cnew>>

\* pprof.WriteHeapProfile(f) of main, and the return of main
WriteHeapProfile ==
    /\ mst.pc = "heap"
    /\ \E ok \in BOOLEAN :
        mst' = IF ok THEN Exit(0) ELSE Exit(1)
    /\ UNCHANGED <<cfile, cnew>>

\* the next pack process, with the config.toml the last one left
NextProcess ==
    /\ mst.pc = "exited"
    /\ mst' = NoMain
    /\ UNCHANGED <<cfile, cnew>>

InitCli ==
    /\ cfile \in ConfigFiles
    /\ cnew = NoNew
    /\ mst = NoMain
    /\ ImageIdle
    /\ UidIdle
    /\ RunIdle
    /\ FlagsIdle
    /\ BuilderIdle
    /\ SaveIdle
    /\ TarIdle

NextCli ==
    \/ Execute /\ UNCHANGED <<imgVars, uidVars, runVars, flagVars, bldVars, saveVars, tarVars>>
    \/ ConfigNew /\ UNCHANGED <<imgVars, uidVars, runVars, flagVars, bldVars, saveVars, tarVars>>
    \/ CommandBody /\ UNCHANGED <<imgVars, uidVars, runVars, flagVars, bldVars, saveVars, tarVars>>
    \/ CreateProfile /\ UNCHANGED <<imgVars, uidVars, runVars, flagVars, bldVars, saveVars, tarVars>>
    \/ WriteHeapProfile /\ UNCHANGED <<imgVars, uidVars, runVars, flagVars, bldVars, saveVars, tarVars>>
    \/ NextProcess /\ UNCHANGED <<imgVars, uidVars, runVars, flagVars, bldVars, saveVars, tarVars>>

SpecCli == InitCli /\ [][NextCli]_vars

(***************************************************************************)
(* The streamed Save of the daemon image handle, step by step              *)
(*                                                                         *)
(* Save writes the tar of the image to an io.Pipe that a task it started   *)
(* hands to Docker.ImageLoad.  A write to the pipe returns when the other  *)
(* end has read it, or fails when the other end was closed.  The variant   *)
(* "chan" ends with a receive from the channel done (image/local.go), the  *)
(* variant "wg" with the Wait of a sync.WaitGroup.                         *)
(***************************************************************************)
SaveVariants == {"chan", "wg"}
\* a layer path: "" of a layer of the base image, a file, a file that is gone
SavePaths == {"", "layer.tar", "gone.tar"}
ErrClosedPipe == "io: read/write on closed pipe"
SaveWrites == {"config", "layer", "manifest", "twClose"}

\* Save returns err, or "" when err is nil
SaveReturn(err) == [sv EXCEPT !.pc = "returned", !.err = err]

\* the position of Save after the entry i of layerPaths
AfterLayer(i) == IF i < Len(sv.paths) THEN [sv EXCEPT !.pc = "layer", !.i = i + 1] ELSE [sv EXCEPT !.pc = "manifest"]

\* the position of Save after a write to the pipe returned nil
AfterWrite ==
    CASE sv.pc = "config" -> AfterLayer(0)
      [] sv.pc = "layer" -> AfterLayer(sv.i)
      [] sv.pc = "manifest" -> [sv EXCEPT !.pc = "twClose"]
      [] OTHER -> [sv EXCEPT !.pc = "pwClose"]

\* name.NewTag(l.RepoName, name.WeakValidation) of the variant "chan"
SaveNewTag ==
    /\ sv.pc = "start" /\ sv.variant = "chan"
    /\ \E ok \in BOOLEAN : sv' = IF ok THEN [sv EXCEPT !.pc = "spawn"] ELSE SaveReturn(ErrSaveTag)

\* io.Pipe() and the go statement
SaveSpawn ==
    /\ sv.pc = "spawn"
    /\ sv' = [sv EXCEPT !.pc = "config", !.pipe = "open", !.lpc = "start"]

\* the task of the variant "wg": wg.Add(1)
TaskAdd ==
    /\ sv.variant = "wg" /\ sv.lpc = "start"
    /\ sv' = [sv EXCEPT !.lpc = "registered", !.wg = sv.wg + 1]

\* the task calls l.Docker.ImageLoad(ctx, pr, true)
TaskImageLoad ==
    /\ sv.lpc = IF sv.variant = "wg" THEN "registered" ELSE "start"
    /\ sv' = [sv EXCEPT !.lpc = "loading"]

\* a write of Save to the pipe that ImageLoad reads
PipeWrite ==
    /\ sv.pc \in SaveWrites /\ sv.pipe = "open" /\ sv.lpc = "loading"
    /\ sv.pc = "layer" => sv.paths[sv.i] = "layer.tar"
    /\ sv' = AfterWrite

\* a write of Save to the pipe whose read end was closed; tw.Close() drops
\* the error
PipeWriteClosed ==
    /\ sv.pc \in SaveWrites /\ sv.pipe = "rclosed"
    /\ sv.pc = "layer" => sv.paths[sv.i] = "layer.tar"
    /\ sv' = IF sv.pc = "twClose" THEN AfterWrite ELSE SaveReturn(ErrClosedPipe)

\* the loop of Save over l.layerPaths: an empty path, and os.Open failing
SaveLayerNoWrite ==
    /\ sv.pc = "layer" /\ sv.paths[sv.i] # "layer.tar"
    /\ sv' = IF sv.paths[sv.i] = "" THEN AfterLayer(sv.i) ELSE SaveReturn(ErrSaveOpen)

\* pw.Close()
SavePwClose ==
    /\ sv.pc = "pwClose"
    /\ sv' = [sv EXCEPT !.pc = IF sv.variant = "chan" THEN "recv" ELSE "wait",
                        !.pipe = IF sv.pipe = "open" THEN "wclosed" ELSE sv.pipe]

\* ImageLoad read the end of the stream and returns
ImageLoadEOF ==
    /\ sv.lpc = "loading" /\ sv.pipe = "wclosed"
    /\ \E ok \in BOOLEAN :
        sv' = IF ok THEN [sv EXCEPT !.lpc = IF sv.variant = "chan" THEN "send" ELSE "copy"]
              ELSE [sv EXCEPT !.lpc = "failed", !.lerr = ErrSaveLoad]

\* ImageLoad fails before the end of the stream; its transport may close
\* the read end of the pipe
ImageLoadFail ==
    /\ sv.lpc = "loading" /\ sv.pipe = "open"
    /\ \E closes \in BOOLEAN :
        sv' = [sv EXCEPT !.lpc = "failed", !.lerr = ErrSaveLoad, !.pipe = IF closes THEN "rclosed" ELSE "open"]

\* the task after ImageLoad returned an error: "chan" copies res.Body, which
\* is nil unless the Docker in use filled it, "wg" panics
TaskLoadFailed ==
    /\ sv.lpc = "failed"
    /\ \E body \in BOOLEAN :
        sv' = IF sv.variant = "chan" /\ body THEN [sv EXCEPT !.lpc = "send"]
              ELSE [sv EXCEPT !.lpc = "crashed", !.pc = "crashed"]

\* done <- err of the task, and err = <-done of Save, which returns
DoneSend ==
    /\ sv.lpc = "send" /\ sv.pc = "recv"
    /\ sv' = [sv EXCEPT !.lpc = "done", !.pc = "returned", !.err = sv.lerr]

\* the task of the variant "wg": io.Copy(os.Stdout, res.Body) and wg.Done()
TaskCopyDone ==
    /\ sv.lpc = "copy"
    /\ sv' = [sv EXCEPT !.lpc = "done", !.wg = sv.wg - 1]

\* wg.Wait() of Save, which returns
SaveWait ==
    /\ sv.pc = "wait" /\ sv.wg = 0
    /\ sv' = SaveReturn(NoErr)

InitSave ==
    /\ \E variant \in SaveVariants, paths \in SeqsUpTo(SavePaths, MaxSavePaths) :
        sv = [NoSave EXCEPT !.variant = variant, !.paths = paths,
                            !.pc = IF variant = "chan" THEN "start" ELSE "spawn"]
    /\ ImageIdle
    /\ UidIdle
    /\ RunIdle
    /\ FlagsIdle
    /\ BuilderIdle
    /\ CliIdle
    /\ TarIdle

SaveStep ==
    \/ SaveNewTag
    \/ SaveSpawn
    \/ TaskAdd
    \/ TaskImageLoad
    \/ PipeWrite
    \/ PipeWriteClosed
    \/ SaveLayerNoWrite
    \/ SavePwClose
    \/ ImageLoadEOF
    \/ ImageLoadFail
    \/ TaskLoadFailed
    \/ DoneSend
    \/ TaskCopyDone
    \/ SaveWait

NextSave == SaveStep /\ UNCHANGED <<imgVars, uidVars, runVars, flagVars, bldVars, cliVars, tarVars>>

SpecSave == InitSave /\ [][NextSave]_vars

\* Save and its task take a step whenever one of them can
SpecSaveLive == SpecSave /\ WF_vars(NextSave)

(***************************************************************************)
(* tarEnvFile (build.go): the tar stream of the env file of a build        *)
(***************************************************************************)
EnvFileKeys == {"PATH", "HOME", "LANG"}
EnvFileValues == {<<"a">>, <<"b", "c">>}

\* b.EnvFile: a map[string]string, here a function from its keys to values
EnvFiles ==
    UNION {[ks -> EnvFileValues] : ks \in {k \in SUBSET EnvFileKeys : Cardinality(k) <= MaxEnvFile}}

\* the orders in which a range over a map of these keys can visit them: the
\* iteration order of a Go map is unspecified and changes from run to run
RangeOrders(keys) ==
    {o \in [1..Cardinality(keys) -> keys] : \A k \in keys : \E i \in DOMAIN o : o[i] = k}

\* the header and body of the file of the variable k
EnvFileEntry(env, k, now) ==
    [Typeflag |-> "reg", Name |-> <<"/platform/env/", k>>, Size |-> Len(env[k]), Mode |-> "0444",
     ModTime |-> now, body |-> env[k]]

\* the header of the directory, written after the files
EnvDirEntry(now) ==
    [Typeflag |-> "dir", Name |-> <<"/platform/env/">>, Size |-> 0, Mode |-> "0555",
     ModTime |-> now, body |-> <<>>]

\* tarEnvFile with the clock at now and the range visiting the keys in order
tarEnvFile(env, order, now) ==
    [i \in 1..Len(order) |-> EnvFileEntry(env, order[i], now)] \o <<EnvDirEntry(now)>>

\* a call of tarEnvFile: time.Now(), then the range over b.EnvFile
TarEnvFileCall ==
    /\ Len(tv.out) < 2
    /\ \E order \in RangeOrders(DOMAIN tv.env) :
        tv' = [tv EXCEPT !.out = Append(@, tarEnvFile(tv.env, order, tv.clock))]

\* time passes
Tick ==
    /\ tv.clock < MaxClock
    /\ tv' = [tv EXCEPT !.clock = @ + 1]

InitTar ==
    /\ \E env \in EnvFiles : tv = [NoTar EXCEPT !.env = env]
    /\ ImageIdle
    /\ UidIdle
    /\ RunIdle
    /\ FlagsIdle
    /\ BuilderIdle
    /\ CliIdle
    /\ SaveIdle

NextTar ==
    \/ TarEnvFileCall /\ UNCHANGED <<imgVars, uidVars, runVars, flagVars, bldVars, cliVars, saveVars>>
    \/ Tick /\ UNCHANGED <<imgVars, uidVars, runVars, flagVars, bldVars, cliVars, saveVars>>

SpecTar == InitTar /\ [][NextTar]_vars

(***************************************************************************)
(* Image handle: properties                                                *)
(***************************************************************************)
\* the layers of the target image strictly above its first layer equal to oldTop
LayersAbove(layers, oldTop) == Tail_(layers, IndexOf(layers, oldTop) + 1)

\* C2: after Rebase(old_top, new_base) succeeded and Save was then called, the
\* image stored under the target's repo name has the new base's diff-ids
\* followed by the target's original layers strictly above old_top, in order.
C2_SaveStoresRebasedLayers ==
    (ret.op = "Save" /\ ret.err = NoErr /\ rebased.done) =>
        daemon[Resolve(handle.RepoName)].layers
            = rebased.newBase \o LayersAbove(rebased.target, rebased.oldTop)

\* C4: in every reachable state of a daemon-backed handle, after creation and
\* after every SetLabel, AddLayer, Rebase and Save, failed or not, layerPaths
\* has as many entries as the handle's root-fs layer list.
C4_LayerPathsParallel ==
    handle.open => Len(handle.layerPaths) = Len(handle.Inspect.layers)

\* a handle that was opened on an image with layers and has had a layer added
C4_Witness ==
    /\ handle.open /\ ret.op = "AddLayer" /\ ret.err = NoErr
    /\ Len(handle.layerPaths) >= 2
    /\ handle.layerPaths[1] = "" /\ handle.layerPaths[Len(handle.layerPaths)] # ""

\* C9: a successful Rebase of a target with n layers, whose layer k-1 (from 0)
\* is old_top, onto a new base with m layers yields an image with exactly
\* m + (n - k) layers: the layers strictly above old_top are kept.
C9_RebaseLayerCount ==
    (ret.op = "Rebase" /\ ret.err = NoErr) =>
        LET k == IndexOf(rebased.target, rebased.oldTop)
            result == daemon[handle.currentTempImage]
        IN
        /\ rebased.done /\ k >= 1
        /\ ctrs = <<>>
        /\ result.exists
        /\ Len(result.layers) = Len(rebased.newBase) + (Len(rebased.target) - k)
        /\ (Len(rebased.newBase) = k => Len(result.layers) = Len(rebased.target))

\* a successful Rebase with layers above old_top, onto a base of another size
C9_Witness ==
    /\ ret.op = "Rebase" /\ ret.err = NoErr
    /\ IndexOf(rebased.target, rebased.oldTop) < Len(rebased.target)
    /\ Len(rebased.newBase) > IndexOf(rebased.target, rebased.oldTop)

\* C10: when the target image and the new base can be read and old_top is not
\* one of the target's root-fs diff-ids, Rebase returns
\* "rebase: old base top layer not found" and leaves the handle (inspect
\* snapshot, layerPaths, currentTempImage) and the daemon's images unchanged.
C10_RebaseNotFound ==
    [][(/\ ret'.op = "Rebase"
        /\ daemon[Resolve(handle.RepoName)].exists /\ daemon[NewBaseRef].exists
        /\ ret'.arg \notin Range(daemon[Resolve(handle.RepoName)].layers))
       => (/\ ret'.err = ErrRebaseNotFound
           /\ handle' = handle
           /\ daemon' = daemon)]_vars

\* Rebase has just failed for want of old_top, on a handle with an added layer
C10_Witness ==
    /\ ret.op = "Rebase" /\ ret.err = ErrRebaseNotFound
    /\ handle.open /\ Len(handle.Inspect.layers) >= 1
    /\ ret.arg \notin Range(daemon[Resolve(handle.RepoName)].layers)

\* C11: whenever TopLayer is called on a handle, after its creation and
\* after any SetLabel, AddLayer, Rebase and Save, it returns the last entry of
\* the handle's layer list.
C11_TopLayerIsLast ==
    ret.op = "TopLayer" =>
        /\ ret.err = NoErr
        /\ handle.Inspect.layers # <<>>
        /\ ret.val = handle.Inspect.layers[Len(handle.Inspect.layers)]

C13_SetLabelInMemory ==
    [][ret'.op = "SetLabel" =>
        /\ daemon' = daemon
        /\ ret'.err = NoErr =>
            /\ handle'.Inspect.exists /\ ~handle'.Inspect.nilLabels
            /\ handle'.Inspect.labels[ret'.arg] = ret'.val
            /\ \A k \in LabelKeys \ {ret'.arg} : handle'.Inspect.labels[k] = handle.Inspect.labels[k]
            /\ [handle' EXCEPT !.Inspect.labels = handle.Inspect.labels] = handle
        /\ ~handle.Inspect.exists => (ret'.err = ErrSetLabel /\ handle' = handle)]_vars

\* a label was added to a handle that holds another label, and the stored
\* image does not have it
C13_Witness ==
    /\ ret.op = "SetLabel" /\ ret.err = NoErr /\ ret.arg = "otherkey"
    /\ handle.Inspect.labels = [k \in LabelKeys |-> "v1"]
    /\ daemon[Resolve(handle.RepoName)].labels["otherkey"] = Absent

\* C14: Label(key) on a handle whose image exists returns the value of the
\* label when the image has it and "" without an error when it has not; on a
\* handle whose image does not exist it returns the error "failed to get
\* label, image ... does not exist".
C14_LabelOrError ==
    ret.op = "Label" =>
        IF handle.Inspect.exists
        THEN /\ ret.err = NoErr
             /\ ret.val = IF ~handle.Inspect.nilLabels /\ handle.Inspect.labels[ret.arg] # Absent
                          THEN handle.Inspect.labels[ret.arg] ELSE ""
        ELSE ret.err = ErrLabel /\ ret.val = ""

\* Label was called on a handle whose image does not exist
C14_Witness == ret.op = "Label" /\ ret.err = ErrLabel /\ handle.open /\ ~handle.Inspect.exists

\* C31: the containers of Analyze and Export get PACK_REGISTRY_AUTH and host
\* networking exactly when Publish is set, and the docker socket, the user
\* root and -daemon exactly when it is not; the containers of Detect, of
\* Build and of chownDir get no docker socket, no registry credentials and
\* no host networking.
C31_PublishOrDaemon ==
    \A i \in 1..Len(ctrs) :
        LET c == ctrs[i]
            creds == "PACK_REGISTRY_AUTH" \in c.Env
            host == c.NetworkMode = "host"
            sock == dockerSock \in c.Binds
        IN
        IF c.cmd \in {Cmd("Analyze"), Cmd("Export")}
            THEN /\ creds <=> bcfg.Publish
                 /\ host <=> bcfg.Publish
                 /\ sock <=> ~bcfg.Publish
                 /\ c.user = "root" <=> ~bcfg.Publish
                 /\ c.daemon <=> ~bcfg.Publish
        ELSE ~creds /\ ~host /\ ~sock

\* a publishing build created the containers of all four phases and one of
\* chownDir
C31_Witness ==
    /\ bcfg.Publish
    /\ \A cmd \in {Cmd("Detect"), Cmd("Analyze"), Cmd("Build"), Cmd("Export"), "chown"} :
        \E i \in 1..Len(ctrs) : ctrs[i].cmd = cmd

\* the copies into the container of a phase
CopyIns == {"CopyBuildpack", "CopyApp", "CopyOrder", "CopyEnvs"}

\* the number of entries of the log before n that are a successful ev of phase
Copied(ev, phase, n) ==
    Cardinality({m \in 1..(n - 1) : log[m].ev = ev /\ log[m].phase = phase /\ log[m].ok})

\* C32: in Detect and in Build the phase's container is run only after
\* every copy into it succeeded: one copy for each --buildpack flag, the app
\* (Detect), the order.toml (Detect, with flags) and the env files (with an
\* env file); after a copy that failed the container is never run and the
\* phase returns an error.
C32_RunAfterCopies ==
    \A n \in 1..Len(log) :
        LET phase == log[n].phase IN
        phase \in {"Detect", "Build"} =>
            /\ log[n].ev = "RunContainer" =>
                /\ Copied("CopyBuildpack", phase, n) = Len(bcfg.Buildpacks)
                /\ phase = "Detect" => Copied("CopyApp", phase, n) = 1
                /\ (phase = "Detect" /\ bcfg.Buildpacks # <<>>) => Copied("CopyOrder", phase, n) = 1
                /\ bcfg.EnvFile => Copied("CopyEnvs", phase, n) = 1
            /\ (log[n].ev \in CopyIns /\ ~log[n].ok) =>
                \A m \in 1..Len(log) :
                    log[m].phase = phase =>
                        /\ log[m].ev # "RunContainer"
                        /\ log[m].ev = "PhaseReturn" => ~log[m].ok

\* the builder ran after a buildpack directory and the env files were copied
C32_Witness ==
    /\ bcfg.EnvFile
    /\ \E n \in 1..Len(log) :
        /\ log[n].ev = "RunContainer" /\ log[n].phase = "Build"
        /\ \E m \in 1..(n - 1) :
            log[m].ev = "CopyBuildpack" /\ log[m].phase = "Build" /\ log[m].ok /\ log[m].tars = 1

\* the iterations of copyBuildpacksToContainer in Detect, in order
DetectCopies == SelectSeq(log, LAMBDA e : e.ev = "CopyBuildpack" /\ e.phase = "Detect")

\* the order written as order.toml is one group of the buildpacks the flags
\* were resolved to, one for each flag, in the order of the flags
OneGroupOfFlags(groups) ==
    /\ Len(groups) = 1
    /\ LET listed == groups[1].Buildpacks IN
       /\ Len(listed) = Len(bcfg.Buildpacks)
       /\ Len(DetectCopies) = Len(bcfg.Buildpacks)
       /\ \A i \in 1..Len(listed) :
            /\ listed[i].Optional = FALSE
            /\ DetectCopies[i].flag = bcfg.Buildpacks[i]
            /\ <<listed[i]>> = DetectCopies[i].bp
            /\ bcfg.Buildpacks[i].kind = "dir" =>
                (listed[i].ID = bcfg.Buildpacks[i].ID /\ listed[i].Version = bcfg.Buildpacks[i].Version)

\* C35: with --buildpack flags, the order.toml copied to the detect
\* container is one group that lists the buildpacks of the flags, in the
\* order of the flags, none optional, and the detector is run only after it
\* was copied; without --buildpack flags no order.toml is copied.
C35_OrderTomlOfFlags ==
    \A n \in 1..Len(log) :
        /\ log[n].ev = "CopyOrder" =>
            /\ log[n].phase = "Detect"
            /\ bcfg.Buildpacks # <<>>
            /\ OneGroupOfFlags(log[n].groups)
        /\ (log[n].ev = "RunContainer" /\ log[n].phase = "Detect" /\ bcfg.Buildpacks # <<>>) =>
            \E m \in 1..(n - 1) : log[m].ev = "CopyOrder" /\ log[m].ok
        /\ (log[n].ev = "RunContainer" /\ log[n].phase = "Detect" /\ bcfg.Buildpacks = <<>>) =>
            \A m \in 1..Len(log) : log[m].ev # "CopyOrder"

\* the detector ran after the order.toml of two --buildpack flags, a
\* reference and a directory, was copied
C35_Witness ==
    /\ Len(bcfg.Buildpacks) = 2
    /\ bcfg.Buildpacks[1].kind = "ref" /\ bcfg.Buildpacks[2].kind = "dir"
    /\ \E n \in 1..Len(log) :
        /\ log[n].ev = "RunContainer" /\ log[n].phase = "Detect" /\ log[n].ok
        /\ \E m \in 1..(n - 1) : log[m].ev = "CopyOrder" /\ log[m].ok /\ Len(log[m].groups[1].Buildpacks) = 2

\* the buildpack b carries the id and version the reference ref names: the
\* whole reference and "latest" when it has no version part, else an id and
\* a version that the reference joins with "@"
ResolvedAs(ref, b) ==
    IF "@" \notin Range(ref) THEN b.ID = ref /\ b.Version = <<"latest">>
    ELSE ref = b.ID \o <<"@">> \o b.Version

\* C36: for a --buildpack flag that is no directory with a buildpack.toml,
\* the reference resolves to (reference, latest) when it has no version part
\* and to (id, version) when it is id@version; nothing is uploaded for it;
\* and the group written as order.toml lists it with that id and version.
C36_ReferenceResolved ==
    \A n \in 1..Len(log) :
        /\ (log[n].ev = "CopyBuildpack" /\ log[n].flag.kind = "ref") =>
            /\ log[n].ok /\ log[n].tars = 0
            /\ Len(log[n].bp) = 1 /\ ResolvedAs(log[n].flag.ref, log[n].bp[1])
        /\ (log[n].ev = "CopyOrder") =>
            \A i \in 1..Len(bcfg.Buildpacks) :
                bcfg.Buildpacks[i].kind = "ref" =>
                    /\ Len(log[n].groups) = 1 /\ i <= Len(log[n].groups[1].Buildpacks)
                    /\ ResolvedAs(bcfg.Buildpacks[i].ref, log[n].groups[1].Buildpacks[i])

\* C37: two calls of tarEnvFile with the same env map give the same stream:
\* the same entries in the same order with the same timestamps, whatever
\* the wall clock reads and in whatever order the map is iterated.
C37_TarEnvFileDeterministic ==
    Len(tv.out) = 2 => tv.out[1] = tv.out[2]

\* C38: SetLabel on a handle whose image exists returns nil, also when the
\* image has no label map, and a Label of the key then returns the value.
C38_SetLabelOnAnyImage ==
    (ret.op = "SetLabel" /\ handle.Inspect.exists) =>
        /\ ret.err = NoErr
        /\ Label(handle, ret.arg) = [val |-> ret.val, err |-> NoErr]

(***************************************************************************)
(* packUidGid: properties                                                  *)
(***************************************************************************)
\* the gid the claim resolves: PACK_GROUP_ID, or PACK_USER_GID when
\* PACK_GROUP_ID is absent or empty
ClaimedGid(env) ==
    IF EnvLookup(env, "PACK_GROUP_ID") # <<>> THEN EnvLookup(env, "PACK_GROUP_ID")
    ELSE EnvLookup(env, "PACK_USER_GID")

\* C6: packUidGid takes uid from PACK_USER_ID and gid from PACK_GROUP_ID, or
\* from PACK_USER_GID when PACK_GROUP_ID is absent or empty; it succeeds
\* exactly when both resolved values are integers, and fails otherwise with
\* "not found pack uid & gid".
C6_PackUidGidResolves ==
    (ures.done /\ ures.err # ErrReadEnv) =>
        LET sUID == EnvLookup(uenv, "PACK_USER_ID")
            sGID == ClaimedGid(uenv)
        IN
        IF AtoiOk(sUID) /\ AtoiOk(sGID)
        THEN ures.err = NoErr /\ ures.uid = Atoi(sUID) /\ ures.gid = Atoi(sGID)
        ELSE ures.err = ErrNotFound

(***************************************************************************)
(* BuildConfig.Run: properties                                             *)
(***************************************************************************)
IsPhaseStart(e) == e.ev = "PhaseStart"
IsPhaseReturn(e) == e.ev = "PhaseReturn"
PhaseStarts == SelectSeq(log, IsPhaseStart)
PhaseReturns == SelectSeq(log, IsPhaseReturn)

\* C1: Run calls the phases in the order Detect, Analyze, Build, Export, each
\* at most once and one at a time; a phase is called only when the phase
\* before it has returned nil, and when a phase returns an error Run returns
\* that error and calls no later phase.
C1_RunPhaseOrder ==
    /\ Len(PhaseStarts) <= Len(Phases)
    /\ \A i \in 1..Len(PhaseStarts) : PhaseStarts[i].phase = Phases[i]
    /\ Len(PhaseReturns) \in {Len(PhaseStarts) - 1, Len(PhaseStarts)}
    /\ \A i \in 1..Len(PhaseReturns) : PhaseReturns[i].phase = Phases[i]
    /\ \A i \in 1..Len(log) :
        /\ (IsPhaseStart(log[i]) /\ i > 1) =>
                IsPhaseReturn(log[i-1]) /\ log[i-1].ok /\ log[i-1].what = NoErr
        /\ (IsPhaseReturn(log[i]) /\ ~log[i].ok) =>
                i = Len(log) /\ runRet.done /\ runRet.err = log[i].what /\ runRet.err # NoErr
        /\ (~IsPhaseStart(log[i]) /\ i > 1) => log[i].phase = log[i-1].phase
    /\ runRet.done =>
        /\ pc.phase = "done"
        /\ IsPhaseReturn(log[Len(log)])
        /\ runRet.err = NoErr => (Len(PhaseReturns) = Len(Phases) /\ \A i \in 1..Len(Phases) : PhaseReturns[i].ok)

\* Run returned the error of Build, after Detect and Analyze returned nil
C1_Witness ==
    /\ runRet.done /\ runRet.err = "running builder in container"
    /\ Len(PhaseStarts) = 3 /\ Len(PhaseReturns) = 3
    /\ PhaseReturns[1].ok /\ PhaseReturns[2].ok /\ ~PhaseReturns[3].ok

\* the calls that write to the cache volume mounted at /workspace
WritesVolume(e) == e.ev \in {"VolumeRemove", "CopyApp", "ChownRun", "RunContainer"}
IsExporterRun(e) == e.ev = "RunContainer" /\ e.phase = "Export"
ExportFailedBeforeRun(e) ==
    e.phase = "Export" /\ e.ev \in {"packUidGid", "ChownCreate", "ChownRun"} /\ ~e.ok

\* C7: in Export the exporter container is started only after a chown -R of
\* /workspace to the uid:gid that packUidGid returned has run successfully,
\* with no write to the volume between the two; when packUidGid or the chown
\* fails, the exporter container is never started and Export returns an error.
C7_ExportChownBeforeRun ==
    /\ \A i \in 1..Len(log) :
        IsExporterRun(log[i]) =>
            \E u \in 1..(i-1), j \in 1..(i-1) :
                /\ u < j
                /\ log[u].ev = "packUidGid" /\ log[u].phase = "Export" /\ log[u].ok
                /\ log[j].ev = "ChownRun" /\ log[j].phase = "Export" /\ log[j].ok
                /\ log[j].what = launchDir
                /\ log[j].uid = log[u].uid /\ log[j].gid = log[u].gid
                /\ \A k \in (j+1)..(i-1) : ~WritesVolume(log[k])
    /\ (\E j \in 1..Len(log) : ExportFailedBeforeRun(log[j])) =>
        /\ \A i \in 1..Len(log) : ~IsExporterRun(log[i])
        /\ \A c \in 1..Len(ctrs) : ctrs[c].cmd = "/lifecycle/exporter" => ctrs[c].state # "exited"
        /\ runRet.done => runRet.err \in {"get pack uid and gid", "chown launch dir"}
        /\ pc.phase = "done" => runRet.done

\* the exporter container was started, after the chown of /workspace
C7_Witness ==
    \E i \in 1..Len(log) : IsExporterRun(log[i]) /\ log[i-1].ev = "ChownRemove"

(***************************************************************************)
(* BuildConfigFromFlags: properties                                        *)
(***************************************************************************)
HasStackId(l) == l \notin {"", NoImageLabel}
LabelReads == SelectSeq(fres.trace, LAMBDA e : e[1] = "Label")
Selections == SelectSeq(fres.trace, LAMBDA e : e[1] = "ImageByRegistry")

\* C3: BuildConfigFromFlags returns a BuildConfig only if the builder image
\* and the run image it chose both carry a non-empty io.buildpacks.stack.id
\* label and the two are equal; when it has read the two labels and they
\* differ, it returns the error "invalid stack" naming the run image's id,
\* the run image, the builder's id and the builder, and no BuildConfig.
C3_StackIdsAgree ==
    fres.done =>
        /\ fres.ok = (fres.config # <<>>)
        /\ fres.ok => /\ HasStackId(flags.builderLabel) /\ HasStackId(flags.runLabel)
                      /\ flags.builderLabel = flags.runLabel
        /\ (/\ Len(LabelReads) = 2
            /\ HasStackId(flags.builderLabel) /\ HasStackId(flags.runLabel)
            /\ flags.builderLabel # flags.runLabel) =>
                /\ ~fres.ok
                /\ fres.err = [msg |-> "invalid stack", runId |-> flags.runLabel, runImage |-> LabelReads[2][2],
                               builderId |-> flags.builderLabel, builder |-> LabelReads[1][2]]
                /\ flags.RunImage # <<>> => fres.err.runImage = flags.RunImage

\* a run image selected from the stack has another stack id than the builder
C3_Witness ==
    /\ fres.done /\ fres.err.msg = "invalid stack"
    /\ flags.RunImage = <<>> /\ fres.err.runImage \in Range(flags.RunImages)

\* the entries of images whose registry is reg
Matching(images, reg) == {k \in 1..Len(images) : ParseOk(images[k]) /\ RegistryStr(images[k]) = reg}
Least(S) == CHOOSE k \in S : \A j \in S : k <= j

\* C8: without a run-image flag the run image is the first entry of the
\* run-images of the builder's stack whose registry is the registry of the
\* target repository, and the first entry when none matches; it is a member
\* of the list, and an empty list is an error.
C8_RunImageByRegistry ==
    (fres.done /\ Len(Selections) = 1) =>
        LET images == Get(ConfigStacks(flags), flags.builderLabel).stack.RunImages
            repoName == IF flags.RepoName = <<>> THEN DefaultRepoName ELSE flags.RepoName
            matches == Matching(images, Registry(repoName).reg)
            selected == Selections[1][2]
        IN
        /\ flags.RunImage = <<>>
        /\ IF images = <<>> THEN ~fres.ok /\ fres.err.msg = "empty images"
           ELSE /\ selected = IF matches # {} THEN images[Least(matches)] ELSE images[1]
                /\ selected \in Range(images)
                /\ fres.ok => fres.config[1].RunImage = selected

\* the second run image of the stack is selected for a target on its registry
C8_Witness ==
    /\ fres.done /\ fres.ok /\ flags.RunImage = <<>>
    /\ flags.RepoName = <<"registry.com", "some", "app">>
    /\ flags.RunImages = << <<"some", "run">>, <<"registry.com", "some", "run">> >>
    /\ fres.config[1].RunImage = <<"registry.com", "some", "run">>

\* the calls of the trace on the builder image, up to the read of its label,
\* and the calls after it
BuilderCalls ==
    IF LabelReads = <<>> THEN fres.trace
    ELSE SubSeq(fres.trace, 1, CHOOSE k \in 1..Len(fres.trace) :
                    fres.trace[k][1] = "Label" /\ \A j \in 1..(k-1) : fres.trace[j][1] # "Label")
RunImageCalls == SubSeq(fres.trace, Len(BuilderCalls) + 1, Len(fres.trace))
Called(calls, what) == {calls[k][2] : k \in {j \in 1..Len(calls) : calls[j][1] = what}}

\* C18: BuildConfigFromFlags opens the builder of the Builder flag when the
\* flag is set and else the default builder of the config, and it pulls
\* the builder image exactly when neither NoPull nor Publish is set.
C18_BuilderPulledUnlessPublish ==
    (fres.done /\ BuilderCalls # <<>>) =>
        LET builder == IF flags.Builder # <<>> THEN flags.Builder ELSE DefaultBuilder IN
        /\ Called(BuilderCalls, "NewLocal") = {builder}
        /\ fres.ok => fres.config[1].Builder = builder
        /\ Called(BuilderCalls, "PullImage") = IF ~flags.NoPull /\ ~flags.Publish THEN {builder} ELSE {}

\* C19: BuildConfigFromFlags pulls the run image exactly when neither Publish
\* nor NoPull is set; with Publish it opens the run image with NewRemote and
\* makes no call of the daemon for it.
C19_RunImagePull ==
    (fres.done /\ Called(RunImageCalls, "NewLocal") \cup Called(RunImageCalls, "NewRemote") # {}) =>
        LET runImage == IF flags.RunImage # <<>> THEN flags.RunImage ELSE Selections[1][2] IN
        /\ Called(RunImageCalls, "PullImage") = IF ~flags.Publish /\ ~flags.NoPull THEN {runImage} ELSE {}
        /\ Called(RunImageCalls, "NewRemote") = IF flags.Publish THEN {runImage} ELSE {}
        /\ Called(RunImageCalls, "NewLocal") = IF flags.Publish THEN {} ELSE {runImage}
        /\ flags.Publish => \A k \in 1..Len(fres.trace) :
                fres.trace[k][2] = runImage => fres.trace[k][1] \in {"ImageByRegistry", "NewRemote", "Label"}
        /\ fres.ok => fres.config[1].RunImage = runImage

\* a build that does not publish pulled the run image that the stack of the
\* builder chose
C19_Witness ==
    /\ fres.done /\ fres.ok /\ flags.RunImage = <<>> /\ ~flags.Publish /\ ~flags.NoPull
    /\ <<"PullImage", <<"registry.com", "some", "run">> >> \in Range(RunImageCalls)

\* C20: when the builder image has an empty io.buildpacks.stack.id label,
\* BuildConfigFromFlags returns "invalid builder image <builder>: missing
\* required label" having made no call for a run image; when the run image
\* it opened has an empty one, it returns "invalid run image <run image>:
\* missing required label"; neither returns a BuildConfig.
C20_MissingStackLabel ==
    fres.done =>
        /\ (LabelReads # <<>> /\ flags.builderLabel = "") =>
            /\ fres.err = [FlagErr("invalid builder image: missing required label") EXCEPT
                              !.builder = IF flags.Builder # <<>> THEN flags.Builder ELSE DefaultBuilder]
            /\ RunImageCalls = <<>>
            /\ ~fres.ok /\ fres.config = <<>>
        /\ (Len(LabelReads) = 2 /\ flags.runLabel = "") =>
            /\ fres.err = [FlagErr("invalid run image: missing required label") EXCEPT !.runImage = LabelReads[2][2]]
            /\ ~fres.ok /\ fres.config = <<>>

\* the builder has no label, and the flags ask for a run image and a pull
C20_Witness ==
    /\ fres.done /\ flags.builderLabel = "" /\ flags.RunImage # <<>> /\ ~flags.NoPull
    /\ fres.err.msg = "invalid builder image: missing required label"
    /\ Len(fres.trace) = 3

\* the value of --path that stands for the working directory
Sentinel == [abs |-> FALSE, parts |-> <<"current working directory">>]

\* C21: for the AppDir "current working directory" the BuildConfig that
\* BuildConfigFromFlags returns has the absolute path of the working
\* directory as AppDir; for every other AppDir it has the absolute path of it.
C21_AppDirSentinel ==
    (fres.done /\ fres.ok) =>
        fres.config[1].AppDir =
            IF flags.AppDir = Sentinel THEN [abs |-> TRUE, parts |-> flags.wd]
            ELSE Abs(flags.AppDir, flags.wd, TRUE).path

(***************************************************************************)
(* BuilderFactory.Create: properties                                       *)
(***************************************************************************)
\* C5: the builder image that Create writes is the base image, then one
\* layer per buildpack in the order of the builder config, then the
\* order.toml layer as its last layer.
C5_OrderLayerLast ==
    (bst.pc = "done" /\ bst.err = NoErr) =>
        bst.written = BaseImage \o [i \in 1..Len(bconf) |-> BuildpackTar(bconf[i])] \o <<OrderTar>>

\* C15: when the buildpack.toml of an entry of the builder config cannot be
\* read, holds another id than the entry or holds no version, Create returns
\* an error (for the last two "buildpack ids did not match" and
\* "buildpack.toml must provide version") and writes no builder image.
C15_BadBuildpackNotWritten ==
    (\E i \in 1..Len(bconf) : bconf[i].toml # "ok") =>
        /\ bst.written = <<>>
        /\ bst.pc # "write"
        /\ bst.pc = "done" => bst.err # NoErr
        /\ (bst.pc = "done" /\ bst.i >= 1 /\ bconf[bst.i].toml # "ok" /\ bst.err = "failed generate layer for buildpack") =>
            bst.cause = CASE bconf[bst.i].toml = "other id" -> "buildpack ids did not match"
                          [] bconf[bst.i].toml = "no version" -> "buildpack.toml must provide version"
                          [] OTHER -> "reading buildpack.toml from buildpack"

\* Create failed on its second buildpack, whose buildpack.toml holds another id
C15_Witness ==
    /\ bst.pc = "done" /\ bst.i = 2 /\ bconf[2].toml = "other id"
    /\ bst.cause = "buildpack ids did not match" /\ Len(bst.image) = 3 /\ bst.written = <<>>

\* the directory of the claim: /buildpacks/<escaped-id>/<version>
ClaimedDir(id, version) ==
    <<"/buildpacks", "/">> \o [i \in 1..Len(id) |-> IF id[i] = "/" THEN "_" ELSE id[i]] \o <<"/", version>>

\* C16: the files of a buildpack are placed at /buildpacks/<escaped-id>/<version>/,
\* the id with every "/" replaced by "_", in the builder image that Create
\* writes and in the phase container that build uploads a buildpack to.
C16_EscapedBuildpackDir ==
    /\ \A id \in BuildpackIds : BpDir(id, "1.0") = ClaimedDir(id, "1.0")
    /\ \A i \in 1..Len(bst.written) :
        bst.written[i].kind = "buildpack" =>
            bst.written[i].dir = ClaimedDir(bst.written[i].id, bst.written[i].version)

\* C17: the builder image that Create writes has at most one buildpack layer
\* for an id and a version, whatever the builder config lists.
C17_OneLayerPerBuildpack ==
    \A i, j \in 1..Len(bst.written) :
        (/\ bst.written[i].kind = "buildpack" /\ bst.written[j].kind = "buildpack"
         /\ bst.written[i].id = bst.written[j].id
         /\ bst.written[i].version = bst.written[j].version) => i = j

(***************************************************************************)
(* BuildConfig.Run: containers, the cache volume and the error channels    *)
(***************************************************************************)
\* the containers that run as the user of the builder image, the pack user
PackUserRun(e) == e.ev = "RunContainer" /\ e.phase \in {"Detect", "Build"}

\* the directory under which a call puts files that root owns, "" for none
RootWrite(e) ==
    IF e.ev = "CopyApp" THEN "/workspace/app"
    ELSE IF e.ev = "RunContainer" /\ e.phase \in {"Analyze", "Export"} /\ ~bcfg.Publish THEN launchDir
    ELSE ""

\* a chown -R of q to the pack uid:gid ran with success after entry w of the
\* log and before entry i, and q holds p
Chowned(w, p, i) ==
    \E j \in (w+1)..(i-1) :
        /\ log[j].ev = "ChownRun" /\ log[j].ok
        /\ log[j].what \in {launchDir, p}
        /\ log[j].uid = PackUidGid(uenv).uid /\ log[j].gid = PackUidGid(uenv).gid

Cleared(i) == \E j \in 1..(i-1) : log[j].ev = "VolumeRemove" /\ log[j].ok

\* C24: when the detector or the builder container is started, every
\* directory of /workspace in which an earlier step put files of root (the
\* copy of the app, the analyzer or the exporter run as root, the exporter of
\* an earlier build on the same cache volume) has since been the subject of
\* a chown -R to the pack uid:gid that succeeded.
C24_ChownBeforePackUser ==
    \A i \in 1..Len(log) :
        PackUserRun(log[i]) =>
            /\ \A w \in 1..(i-1) : RootWrite(log[w]) # "" => Chowned(w, RootWrite(log[w]), i)
            /\ (bcfg.CacheVolume = "used" /\ ~Cleared(i)) => Chowned(0, launchDir, i)

\* the containers that exist: created and not removed
Existing == {c \in 1..Len(ctrs) : ctrs[c].state # "removed"}

\* C25: at most one container that the pipeline created, each with the cache
\* volume bound at /workspace, exists at a time.
C25_OneContainerAtATime == Cardinality(Existing) <= 1

\* C26: of every error channel that CreateTarReader returned in Detect and
\* in copyBuildpacksToContainer, one value is received, whatever
\* CopyToContainer returned.
C26_ErrChanDrained ==
    \A i \in 1..Len(log) : log[i].recv = log[i].tars

\* C27: when a phase returns, the containers it created (its own and those
\* of chownDir) are removed, and no container exists when Run has returned.
C27_ContainersRemoved ==
    ((InPhase /\ pc.mode = "return") \/ runRet.done) => Existing = {}

\* C28: when a call of the container runtime has failed, Run returns an error.
C28_NoFailureIgnored ==
    (runRet.done /\ \E i \in 1..Len(log) : ~IsPhaseReturn(log[i]) /\ ~log[i].ok) => runRet.err # NoErr

IsVolumeRemove(e) == e.ev = "VolumeRemove"

\* C29: VolumeRemove is called only as the first call of Detect and only
\* when ClearCache is set; no phase that failed, and no call after it,
\* removes the cache volume.
C29_VolumeRemoveOnlyOnClearCache ==
    \A i \in 1..Len(log) :
        IsVolumeRemove(log[i]) =>
            /\ bcfg.ClearCache
            /\ i = 2 /\ IsPhaseStart(log[1]) /\ log[1].phase = "Detect"

\* Run without ClearCache returned the error of the builder, and the volume
\* was never removed
C29_Witness ==
    /\ ~bcfg.ClearCache /\ runRet.done /\ runRet.err = "running builder in container"
    /\ Len(ctrs) >= 3
    /\ \A i \in 1..Len(log) : ~IsVolumeRemove(log[i])

\* C30: with ClearCache the cache volume is removed before any container is
\* created and before the app is copied; when the removal fails, Detect
\* returns the error "clearing cache" and no container is created.
C30_ClearCacheFirst ==
    bcfg.ClearCache =>
        /\ \A i \in 1..Len(log) :
            log[i].ev \in {"ContainerCreate", "ChownCreate", "CopyApp", "CopyBuildpack"} => Cleared(i)
        /\ (\E j \in 1..Len(log) : IsVolumeRemove(log[j]) /\ ~log[j].ok) =>
            /\ ctrs = <<>>
            /\ Len(PhaseStarts) = 1
            /\ perr = "clearing cache" \/ (runRet.done /\ runRet.err = "clearing cache")

\* the removal of the cache volume failed and Run returned
C30_Witness ==
    /\ bcfg.ClearCache /\ runRet.done /\ runRet.err = "clearing cache"
    /\ Len(log) = 3 /\ IsVolumeRemove(log[2]) /\ ~log[2].ok /\ ctrs = <<>>

(***************************************************************************)
(* The pack process: properties                                            *)
(***************************************************************************)
BionicCount(stacks) == Cardinality({i \in 1..Len(stacks) : stacks[i].ID = BionicID})

\* C22: the Config that New returns holds exactly one stack of id
\* io.buildpacks.stacks.bionic: the one of the file when the file had one,
\* with the other stacks of the file before it, else the stack with
\* packs/build and packs/run added behind them; default-stack-id is the
\* file's unless that was empty; and every call of New after the first,
\* when the file system lets it read and open the file, returns the stack
\* list of the first.
C22_NewSeedsOnce ==
    cnew.done =>
        /\ cnew.err = NoErr =>
            LET old == cnew.orig.config IN
            /\ BionicCount(cnew.config.Stacks) = 1
            /\ cnew.config.Stacks = IF BionicCount(old.Stacks) > 0 THEN old.Stacks
                                    ELSE Append(old.Stacks, BionicStack)
            /\ cnew.config.DefaultStackID = IF old.DefaultStackID = "" THEN BionicID ELSE old.DefaultStackID
        /\ cnew.first # <<>> =>
            /\ cnew.err \in {NoErr, ErrRead, ErrMkdir, ErrOpenFile}
            /\ cnew.err = NoErr => cnew.config.Stacks = cnew.first[1].Stacks

\* C39: after New returned without error, the config.toml it wrote decodes
\* to exactly the Config it returned, whatever the file held before.
C39_WrittenFileDecodes ==
    (cnew.done /\ cnew.err = NoErr) =>
        /\ cfile.state = "ok"
        /\ cfile.config = cnew.config

\* C23: the process exits with 0 when the command succeeded and with 1 when
\* it returned an error.
C23_ExitCode ==
    mst.pc = "exited" => mst.exit = IF mst.cmdOk THEN 0 ELSE 1

(***************************************************************************)
(* The streamed Save: properties                                           *)
(***************************************************************************)
\* C33: every Save of the variant "chan" returns, and its task ends: neither
\* stays blocked on the pipe or on the channel done.
C33_SaveTerminates ==
    <>(sv.variant = "chan" => (sv.pc = "returned" /\ sv.lpc \in {"none", "done"}))

\* C34: when the Save of the variant "wg" has returned, its task has left
\* ImageLoad and the copy of the response; the Wait is passed only when the
\* task has called Add.
C34_SaveWaitsForTask ==
    (sv.variant = "wg" /\ sv.pc = "returned") => sv.lpc = "done"

====
